---- MODULE Spec2Model ----
(***************************************************************************)
(* Proof of Love: wealth-tier circuit, tier table, prover, verifier and    *)
(* nullifier derivation.                                                   *)
(*                                                                         *)
(* Amounts are USD cents and reach 10^16; circuit signals are elements of  *)
(* the BN254 scalar field (about 2^254).  TLC integers are 32 bit, so a    *)
(* natural number is written as the sequence of its base-10^6 digits,      *)
(* most significant first, without leading zeros: 25_000_000 is <<25, 0>>, *)
(* zero is <<>>.                                                           *)
(***************************************************************************)
EXTENDS Integers, Sequences, FiniteSets, TLC

----------------------------------------------------------------------------
(* Natural-number arithmetic on digit sequences                            *)

Base == 1000000

\* the element of a one-element set.  An intermediate result that is used
\* more than once is named as the element of the set holding it,
\* The({f(v) : v \in {e}}), so that it is computed once.
The(S) == CHOOSE x \in S : TRUE

Zero == <<>>
One == <<1>>
Two == <<2>>
Three == <<3>>

\* drop leading zero digits
Norm(s) ==
    IF \A i \in 1..Len(s) : s[i] = 0 THEN <<>>
    ELSE SubSeq(s, CHOOSE i \in 1..Len(s) : s[i] # 0 /\ \A j \in 1..(i - 1) : s[j] = 0,
                Len(s))

\* n is a TLC integer >= 0
FromInt(n) == Norm(<<n \div Base, n % Base>>)

\* the value of a sequence of at most two digits as a TLC integer (< 2000 * Base)
ToInt(s) == IF Len(s) = 0 THEN 0 ELSE IF Len(s) = 1 THEN s[1] ELSE s[1] * Base + s[2]

PadTo(s, n) == [i \in 1..(n - Len(s)) |-> 0] \o s

BLt(a, b) ==
    IF Len(a) # Len(b) THEN Len(a) < Len(b)
    ELSE \E i \in 1..Len(a) : a[i] < b[i] /\ \A j \in 1..(i - 1) : a[j] = b[j]

BLe(a, b) == a = b \/ BLt(a, b)

\* digit-wise sum with the carries resolved: the carry into digit i is 1 iff
\* some digit to its right overflows and every digit between them is Base - 1
BAdd(a, b) ==
    LET n  == IF Len(a) > Len(b) THEN Len(a) ELSE Len(b)
        x  == PadTo(a, n)
        y  == PadTo(b, n)
        carry == [i \in 0..n |->
                    IF \E j \in (i + 1)..n :
                          /\ x[j] + y[j] >= Base
                          /\ \A m \in (i + 1)..(j - 1) : x[m] + y[m] = Base - 1
                    THEN 1 ELSE 0]
    IN  Norm(<<carry[0]>> \o [i \in 1..n |-> (x[i] + y[i] + carry[i]) % Base])

\* a - b for b <= a: the borrow into digit i is 1 iff some digit to its right
\* is short and every digit between them is equal
BSub(a, b) ==
    LET n == Len(a)
        y == PadTo(b, n)
        borrow == [i \in 1..n |->
                    IF \E j \in (i + 1)..n :
                          /\ a[j] < y[j]
                          /\ \A m \in (i + 1)..(j - 1) : a[m] = y[m]
                    THEN 1 ELSE 0]
    IN  Norm([i \in 1..n |-> (a[i] - y[i] - borrow[i] + Base) % Base])

\* floor(a / d) and a mod d for a small divisor d (1 <= d <= 2000):
\* long division, rem[i] is the remainder after digit i
BDivSmall(a, d) ==
    LET rem[i \in 0..Len(a)] == IF i = 0 THEN 0 ELSE (rem[i - 1] * Base + a[i]) % d
    IN  Norm([i \in 1..Len(a) |-> (rem[i - 1] * Base + a[i]) \div d])

BModSmall(a, d) ==
    LET rem[i \in 0..Len(a)] == IF i = 0 THEN 0 ELSE (rem[i - 1] * Base + a[i]) % d
    IN  rem[Len(a)]

----------------------------------------------------------------------------
(* The BN254 scalar field of the circuit (circom's default prime)          *)

FieldP == <<21888, 242871, 839275, 222246, 405745, 257275, 88548, 364400,
            416034, 343698, 204186, 575808, 495617>>

Pow2_64 == <<18, 446744, 73709, 551616>>
Pow2_65 == <<36, 893488, 147419, 103232>>

\* a, b field elements (0 <= a, b < FieldP)
FAdd(a, b) == The({IF BLe(FieldP, s) THEN BSub(s, FieldP) ELSE s : s \in {BAdd(a, b)}})
FSub(a, b) == IF BLe(b, a) THEN BSub(a, b) ELSE BSub(BAdd(a, FieldP), b)

\* k * x in the field for a TLC integer k >= 0, by doubling
RECURSIVE FMulInt(_, _)
FMulInt(k, x) ==
    IF k = 0 THEN Zero
    ELSE The({IF k % 2 = 1 THEN FAdd(FAdd(h, h), x) ELSE FAdd(h, h) :
                h \in {FMulInt(k \div 2, x)}})

\* a * b in the field: Horner over the digits of a
RECURSIVE FMulAcc(_, _, _)
FMulAcc(a, b, acc) ==
    IF a = <<>> THEN acc
    ELSE The({FMulAcc(Tail(a), b, next) :
                next \in {FAdd(FMulInt(Base, acc), FMulInt(a[1], b))}})

\* the shorter operand drives the loop (multiplication commutes)
FMul(a, b) == IF Len(a) <= Len(b) THEN FMulAcc(a, b, Zero) ELSE FMulAcc(b, a, Zero)

----------------------------------------------------------------------------
(* circomlib comparators and gates.  A component yields ok (its own        *)
(* constraints can be satisfied, so witness generation does not assert)    *)
(* and the value of its output signal.                                     *)

\* LessThan(64): Num2Bits(65) of in[0] + 2^64 - in[1]; out = 1 - bit 64
LessThan(in0, in1) ==
    The({[ok |-> BLt(v, Pow2_65), out |-> IF BLt(v, Pow2_64) THEN One ELSE Zero] :
            v \in {FSub(FAdd(in0, Pow2_64), in1)}})

\* GreaterEqThan(64): LessThan(in[1], in[0] + 1)
GreaterEqThan(in0, in1) == LessThan(in1, FAdd(in0, One))

\* AND(): out = a * b
AND(a, b) == FMul(a, b)

----------------------------------------------------------------------------
(* utils.circom                                                            *)

\* Largest average Avg3 admits (exclusive)
AvgRangeBound == <<6, 148914, 691236, 517206>>

Avg3Sum(in) == FAdd(FAdd(in[1], in[2]), in[3])

\* The witness hint: avg <-- sum \ 3, remainder <-- sum % 3
Avg3Hint(in) ==
    [avg |-> BDivSmall(Avg3Sum(in), 3), remainder |-> FromInt(BModSmall(Avg3Sum(in), 3))]

\* The three constraints of Avg3 on a witness (avg, remainder) for inputs in
Avg3SumConstraint(in, w) ==
    LET avg_times_3 == FMul(w.avg, Three)
    IN  Avg3Sum(in) = FAdd(avg_times_3, w.remainder)

Avg3RemainderConstraint(w) ==
    LET r_minus_1 == FSub(w.remainder, One)
        r_minus_2 == FSub(w.remainder, Two)
        prod_01   == FMul(w.remainder, r_minus_1)
    IN  FMul(prod_01, r_minus_2) = Zero

\* Avg3 without the range check on avg
Avg3RangeConstraint_Dropped(w) == TRUE

Avg3RangeConstraint(w) ==
    LET avg_range == LessThan(w.avg, AvgRangeBound)
    IN  avg_range.ok /\ avg_range.out = One

Avg3(in, w) ==
    [ok  |-> /\ Avg3SumConstraint(in, w)
             /\ Avg3RemainderConstraint(w)
             /\ Avg3RangeConstraint(w),
     out |-> w.avg]

\* Min3 (the template wealth_tier.circom instantiates)
Min3(in) ==
    The({The({The({[ok  |-> lt_01.ok /\ lt_012.ok,
                    out |-> FAdd(FMul(lt_012.out, FSub(min_01, in[3])), in[3])] :
                        lt_012 \in {LessThan(min_01, in[3])}}) :
                min_01 \in {FAdd(FMul(lt_01.out, FSub(in[1], in[2])), in[2])}}) :
            lt_01 \in {LessThan(in[1], in[2])}})

----------------------------------------------------------------------------
(* wealth_tier.circom                                                      *)

\* WealthTier with a 64-bit range check on the nullifier
WealthTier_NullifierRangeChecked(inp) ==
    The({The({[accepted |-> /\ min3.ok /\ gte_lower.ok /\ lt_upper.ok
                            /\ AND(gte_lower.out, lt_upper.out) = One
                            /\ BLt(inp.nullifier, Pow2_64)
                            /\ BLt(FMul(inp.timestamp, inp.timestamp), FieldP),
               publicSignals |-> <<inp.tier_lower_bound, inp.tier_upper_bound,
                                   inp.nullifier, inp.timestamp>>] :
                gte_lower \in {GreaterEqThan(min3.out, inp.tier_lower_bound)},
                lt_upper \in {LessThan(min3.out, inp.tier_upper_bound)}}) :
            min3 \in {Min3(<<inp.balance_1, inp.balance_2, inp.balance_3>>)}})

\* inp: [balance_1, balance_2, balance_3, tier_lower_bound, tier_upper_bound,
\*       nullifier, timestamp], all field elements.  accepted: every
\* constraint holds, i.e. calculateWitness does not assert.
WealthTier(inp) ==
    The({The({[accepted |-> /\ min3.ok /\ gte_lower.ok /\ lt_upper.ok
                            /\ AND(gte_lower.out, lt_upper.out) = One
                            /\ BLt(FMul(inp.nullifier, inp.nullifier), FieldP)
                            /\ BLt(FMul(inp.timestamp, inp.timestamp), FieldP),
               publicSignals |-> <<inp.tier_lower_bound, inp.tier_upper_bound,
                                   inp.nullifier, inp.timestamp>>] :
                gte_lower \in {GreaterEqThan(min3.out, inp.tier_lower_bound)},
                lt_upper \in {LessThan(min3.out, inp.tier_upper_bound)}}) :
            min3 \in {Min3(<<inp.balance_1, inp.balance_2, inp.balance_3>>)}})

----------------------------------------------------------------------------
(* JavaScript numbers: IEEE 754 doubles.  The host code (tiers.ts,         *)
(* prover.ts) computes on them; every integer below 2^53 is exact, above   *)
(* it only multiples of the unit in the last place are representable.      *)

Pow2_52 == <<4503, 599627, 370496>>
Pow2_53 == <<9007, 199254, 740992>>
Pow2_54 == <<18014, 398509, 481984>>
Pow2_55 == <<36028, 797018, 963968>>

\* v mod m for m dividing Base (here m <= 16 divides 10^6)
LowBits(v, m) == IF v = <<>> THEN 0 ELSE v[Len(v)] % m

\* unit in the last place of a double of magnitude v (v < 2^56)
Ulp(v) ==
    IF BLt(v, Pow2_53) THEN 1
    ELSE IF BLt(v, Pow2_54) THEN 2
    ELSE IF BLt(v, Pow2_55) THEN 4
    ELSE 8

IsDouble(v) == LowBits(v, Ulp(v)) = 0

\* round to nearest double, ties to the even significand
RoundToDouble(v) ==
    The({IF r = 0 THEN v
         ELSE The({IF 2 * r < u THEN lo
                   ELSE The({IF 2 * r > u THEN hi
                             ELSE IF LowBits(lo, 2 * u) = 0 THEN lo ELSE hi :
                                hi \in {BAdd(lo, FromInt(u))}}) :
                      lo \in {BSub(v, FromInt(r))}}) :
            u \in {Ulp(v)}, r \in {LowBits(v, Ulp(v))}})

\* a + b on doubles
JsAdd(a, b) == RoundToDouble(BAdd(a, b))

\* Math.floor(x / 3) for a double x < 3 * 2^54: the quotient is rounded to a
\* double before the floor is taken
JsFloorDiv3(x) ==
    The({IF BLt(q, Pow2_52) THEN q
         ELSE IF BLt(q, Pow2_53) THEN (IF f = 2 THEN BAdd(q, One) ELSE q)
         ELSE IF LowBits(q, 2) = 0 THEN q
         ELSE IF f > 0 THEN BAdd(q, One)
         ELSE IF LowBits(BAdd(q, One), 4) = 0 THEN BAdd(q, One) ELSE BSub(q, One) :
            q \in {BDivSmall(x, 3)}, f \in {BModSmall(x, 3)}})

----------------------------------------------------------------------------
(* tiers.ts                                                                *)

MAX_BALANCE == <<10000, 0, 0>>

TIERS == <<
    [tier |-> 1, label |-> "Seed",     lowerBound |-> Zero,        upperBound |-> <<100000>>],
    [tier |-> 2, label |-> "Sprout",   lowerBound |-> <<100000>>,  upperBound |-> <<1, 0>>],
    [tier |-> 3, label |-> "Tree",     lowerBound |-> <<1, 0>>,    upperBound |-> <<5, 0>>],
    [tier |-> 4, label |-> "Mountain", lowerBound |-> <<5, 0>>,    upperBound |-> <<25, 0>>],
    [tier |-> 5, label |-> "Ocean",    lowerBound |-> <<25, 0>>,   upperBound |-> <<100, 0>>],
    [tier |-> 6, label |-> "Moon",     lowerBound |-> <<100, 0>>,  upperBound |-> <<500, 0>>],
    [tier |-> 7, label |-> "Sun",      lowerBound |-> <<500, 0>>,  upperBound |-> MAX_BALANCE] >>

\* for (const tier of TIERS) if (v >= lower && v < upper) return tier; return TIERS[0]
RECURSIVE getTierFrom(_, _)

\* the lookup with an exclusive lower bound
getTierFrom_StrictLower(i, v) ==
    IF i > Len(TIERS) THEN TIERS[1]
    ELSE IF BLt(TIERS[i].lowerBound, v) /\ BLt(v, TIERS[i].upperBound) THEN TIERS[i]
    ELSE getTierFrom(i + 1, v)

getTierFrom(i, v) ==
    IF i > Len(TIERS) THEN TIERS[1]
    ELSE IF BLe(TIERS[i].lowerBound, v) /\ BLt(v, TIERS[i].upperBound) THEN TIERS[i]
    ELSE getTierFrom(i + 1, v)

getTierForBalance(v) == getTierFrom(1, v)

\* TIERS.find(t => t.tier === tierNumber): <<>> when undefined, else <<t>>
getTierByNumber(tierNumber) ==
    IF \E i \in 1..Len(TIERS) : TIERS[i].tier = tierNumber
    THEN <<TIERS[CHOOSE i \in 1..Len(TIERS) :
                   /\ TIERS[i].tier = tierNumber
                   /\ \A j \in 1..(i - 1) : TIERS[j].tier # tierNumber]>>
    ELSE <<>>

\* null / undefined
Null == -1

----------------------------------------------------------------------------
(* solana-submitter.ts: decodeTier and its table [lower, upper, tier]      *)

DecodeTiers == <<
    <<Zero,       <<100000>>,  1>>,
    <<<<100000>>, <<1, 0>>,    2>>,
    <<<<1, 0>>,   <<5, 0>>,    3>>,
    <<<<5, 0>>,   <<25, 0>>,   4>>,
    <<<<25, 0>>,  <<100, 0>>,  5>>,
    <<<<100, 0>>, <<500, 0>>,  6>>,
    <<<<500, 0>>, <<10, 0, 0>>, 7>> >>

\* for (const [lo, hi, tier] of tiers) if (tierLower === lo && tierUpper === hi) return tier; return null
RECURSIVE decodeTierFrom(_, _, _)
decodeTierFrom(i, tierLower, tierUpper) ==
    IF i > Len(DecodeTiers) THEN Null
    ELSE IF tierLower = DecodeTiers[i][1] /\ tierUpper = DecodeTiers[i][2]
         THEN DecodeTiers[i][3]
    ELSE decodeTierFrom(i + 1, tierLower, tierUpper)

decodeTier(tierLower, tierUpper) == decodeTierFrom(1, tierLower, tierUpper)

----------------------------------------------------------------------------
(* demo/src/web.ts: the web demo's own table and lookup                    *)

WebTIERS == <<
    [tier |-> 1, label |-> "Seed",     lower |-> Zero,        upper |-> <<100000>>],
    [tier |-> 2, label |-> "Sprout",   lower |-> <<100000>>,  upper |-> <<1, 0>>],
    [tier |-> 3, label |-> "Tree",     lower |-> <<1, 0>>,    upper |-> <<5, 0>>],
    [tier |-> 4, label |-> "Mountain", lower |-> <<5, 0>>,    upper |-> <<25, 0>>],
    [tier |-> 5, label |-> "Ocean",    lower |-> <<25, 0>>,   upper |-> <<100, 0>>],
    [tier |-> 6, label |-> "Moon",     lower |-> <<100, 0>>,  upper |-> <<500, 0>>],
    [tier |-> 7, label |-> "Sun",      lower |-> <<500, 0>>,  upper |-> <<10000, 0, 0>>] >>

RECURSIVE webGetTierFrom(_, _)
webGetTierFrom(i, cents) ==
    IF i > Len(WebTIERS) THEN WebTIERS[1]
    ELSE IF BLe(WebTIERS[i].lower, cents) /\ BLt(cents, WebTIERS[i].upper) THEN WebTIERS[i]
    ELSE webGetTierFrom(i + 1, cents)

webGetTierForBalance(cents) == webGetTierFrom(1, cents)

----------------------------------------------------------------------------
(* Decimal strings.  A string of digits is the sequence of its digit       *)
(* values; a character that is no digit is written as a value above 9.     *)

\* Number.prototype.toString / BigInt.prototype.toString (integers < 10^21)
ToDecimal(v) ==
    LET d == [k \in 1..(6 * Len(v)) |->
                 (v[((k - 1) \div 6) + 1] \div (10 ^ (5 - ((k - 1) % 6)))) % 10]
    IN  IF v = <<>> THEN <<0>> ELSE Norm(d)

IsNumeric(str) == \A i \in 1..Len(str) : str[i] \in 0..9

\* BigInt(str) for a string of digits (BigInt("") is 0n)
FromDecimal(str) ==
    LET n == (Len(str) + 5) \div 6
        d == PadTo(str, 6 * n)
    IN  Norm([i \in 1..n |->
                 d[6 * i - 5] * 100000 + d[6 * i - 4] * 10000 + d[6 * i - 3] * 1000
                 + d[6 * i - 2] * 100 + d[6 * i - 1] * 10 + d[6 * i]])

----------------------------------------------------------------------------
(* The proving backend (snarkjs groth16 over the compiled circuit).        *)
(* fullProve computes the witness of wealth_tier.circom and fails when a   *)
(* constraint is violated or the key material is unusable; a proof attests *)
(* the public signals it was made for, and verify accepts a well-formed    *)
(* proof exactly for those signals.                                        *)

NoProof == [signals |-> <<>>, wellFormed |-> FALSE]

CircuitInputOf(inputs) ==
    [balance_1 |-> FromDecimal(inputs.balance_1),
     balance_2 |-> FromDecimal(inputs.balance_2),
     balance_3 |-> FromDecimal(inputs.balance_3),
     tier_lower_bound |-> FromDecimal(inputs.tier_lower_bound),
     tier_upper_bound |-> FromDecimal(inputs.tier_upper_bound),
     nullifier |-> FromDecimal(inputs.nullifier),
     timestamp |-> FromDecimal(inputs.timestamp)]

fullProve(inputs, keysOk) ==
    The({IF keysOk /\ w.accepted
         THEN The({[threw |-> FALSE,
                    proof |-> [signals |-> signals, wellFormed |-> TRUE],
                    publicSignals |-> signals] :
                      signals \in {[i \in 1..4 |-> ToDecimal(w.publicSignals[i])]}})
         ELSE [threw |-> TRUE, proof |-> NoProof, publicSignals |-> <<>>] :
            w \in {WealthTier(CircuitInputOf(inputs))}})

\* groth16.verify(vkey, publicSignals, proof) on four public signals
groth16Verify(publicSignals, proof) ==
    IF ~proof.wellFormed \/ \E i \in 1..4 : ~IsNumeric(publicSignals[i])
    THEN [threw |-> TRUE, isValid |-> FALSE]
    ELSE [threw |-> FALSE,
          isValid |-> \A i \in 1..4 :
                          FromDecimal(publicSignals[i]) = FromDecimal(proof.signals[i])]

----------------------------------------------------------------------------
(* prover.ts: WealthProver                                                 *)

NoProofData ==
    [proof |-> NoProof, publicSignals |-> <<>>, tier |-> Null, tierLabel |-> "",
     timestamp |-> Zero]

NoInputs ==
    [balance_1 |-> <<>>, balance_2 |-> <<>>, balance_3 |-> <<>>,
     tier_lower_bound |-> <<>>, tier_upper_bound |-> <<>>,
     nullifier |-> <<>>, timestamp |-> <<>>]

\* Math.floor((balances[0] + balances[1] + balances[2]) / 3)
avgBalance(balances) == JsFloorDiv3(JsAdd(JsAdd(balances[1], balances[2]), balances[3]))

\* const inputs: CircuitInputs = { ... }
CircuitInputs(balances, tier, nullifier, timestamp) ==
    [balance_1 |-> ToDecimal(balances[1]),
     balance_2 |-> ToDecimal(balances[2]),
     balance_3 |-> ToDecimal(balances[3]),
     tier_lower_bound |-> ToDecimal(tier.lowerBound),
     tier_upper_bound |-> ToDecimal(tier.upperBound),
     nullifier |-> ToDecimal(nullifier),
     timestamp |-> ToDecimal(timestamp)]

\* ProveWith whose catch block returns an empty ProofData
ProveWith_ReturnsDefault(balances, nullifier, timestamp, keysOk, errorKind) ==
    The({The({The({IF res.threw
                   THEN [run |-> TRUE, threw |-> FALSE, error |-> "", called |-> TRUE,
                         inputs |-> inputs,
                         data |-> [NoProofData EXCEPT !.tier = tier.tier,
                                                      !.tierLabel = tier.label,
                                                      !.timestamp = timestamp]]
                   ELSE [run |-> TRUE, threw |-> FALSE, error |-> "", called |-> TRUE,
                         inputs |-> inputs,
                         data |-> [proof |-> res.proof, publicSignals |-> res.publicSignals,
                                   tier |-> tier.tier, tierLabel |-> tier.label,
                                   timestamp |-> timestamp]] :
                        res \in {fullProve(inputs, keysOk)}}) :
                inputs \in {CircuitInputs(balances, tier, nullifier, timestamp)}}) :
            tier \in {getTierForBalance(avgBalance(balances))}})

\* the part generateProof and generateProofBrowser share: tier lookup,
\* inputs, backend call, result or rethrown error
ProveWith(balances, nullifier, timestamp, keysOk, errorKind) ==
    The({The({The({IF res.threw
                   THEN [run |-> TRUE, threw |-> TRUE, error |-> errorKind, called |-> TRUE,
                         inputs |-> inputs, data |-> NoProofData]
                   ELSE [run |-> TRUE, threw |-> FALSE, error |-> "", called |-> TRUE,
                         inputs |-> inputs,
                         data |-> [proof |-> res.proof, publicSignals |-> res.publicSignals,
                                   tier |-> tier.tier, tierLabel |-> tier.label,
                                   timestamp |-> timestamp]] :
                        res \in {fullProve(inputs, keysOk)}}) :
                inputs \in {CircuitInputs(balances, tier, nullifier, timestamp)}}) :
            tier \in {getTierForBalance(avgBalance(balances))}})

\* generateProof(balances, nullifier, timestamp = now)
generateProof(hasPaths, balances, nullifier, timestamp, keysOk) ==
    IF ~hasPaths
    THEN [run |-> TRUE, threw |-> TRUE, error |-> "Prover not initialized with artifact paths",
          called |-> FALSE, inputs |-> NoInputs, data |-> NoProofData]
    ELSE ProveWith(balances, nullifier, timestamp, keysOk, "Proof generation failed")

\* generateProofBrowser(balances, nullifier, wasmBuffer, zkeyBuffer); the
\* timestamp is always the current time
generateProofBrowser(balances, nullifier, now, keysOk) ==
    ProveWith(balances, nullifier, now, keysOk, "Browser proof generation failed")

----------------------------------------------------------------------------
(* verifier.ts: WealthVerifier.verify.  An error message is the record of  *)
(* its fixed text and of the values interpolated into it.                  *)

NoError ==
    [text |-> "", tier |-> Null, proofLower |-> <<>>, proofUpper |-> <<>>,
     expLower |-> <<>>, expUpper |-> <<>>]

ErrorText(text) == [NoError EXCEPT !.text = text]

NoResult ==
    [run |-> FALSE, threw |-> FALSE, valid |-> FALSE, tier |-> Null, tierLabel |-> "",
     nullifier |-> <<>>, timestamp |-> Zero, error |-> NoError]

Invalid(error) == [NoResult EXCEPT !.run = TRUE, !.error = error]

Thrown(error) == [NoResult EXCEPT !.run = TRUE, !.threw = TRUE, !.error = error]

\* the try block with the comparison of the bounds left out
verifyTry_NoBoundsCheck(proofData) ==
    LET res == groth16Verify(proofData.publicSignals, proofData.proof)
        claimedTier == getTierByNumber(proofData.tier)
    IN  IF res.threw THEN Thrown(ErrorText("backend error"))
        ELSE IF ~res.isValid THEN Invalid(ErrorText("Invalid proof: verification failed"))
        ELSE IF \E i \in 1..4 : ~IsNumeric(proofData.publicSignals[i])
             THEN Thrown(ErrorText("Cannot convert to a BigInt"))
        ELSE IF claimedTier = <<>>
             THEN Invalid([ErrorText("Unknown tier number") EXCEPT !.tier = proofData.tier])
        ELSE [NoResult EXCEPT !.run = TRUE, !.valid = TRUE,
                              !.tier = proofData.tier,
                              !.tierLabel = proofData.tierLabel,
                              !.nullifier = ToDecimal(FromDecimal(proofData.publicSignals[3])),
                              !.timestamp = RoundToDouble(FromDecimal(proofData.publicSignals[4]))]

\* the try block of verify: what it returns, or the exception that leaves it
verifyTry(proofData) ==
    LET res == groth16Verify(proofData.publicSignals, proofData.proof)
        tierLower == FromDecimal(proofData.publicSignals[1])
        tierUpper == FromDecimal(proofData.publicSignals[2])
        claimedTier == getTierByNumber(proofData.tier)
    IN  IF res.threw THEN Thrown(ErrorText("backend error"))
        ELSE IF ~res.isValid THEN Invalid(ErrorText("Invalid proof: verification failed"))
        ELSE IF \E i \in 1..4 : ~IsNumeric(proofData.publicSignals[i])
             THEN Thrown(ErrorText("Cannot convert to a BigInt"))
        ELSE IF claimedTier = <<>>
             THEN Invalid([ErrorText("Unknown tier number") EXCEPT !.tier = proofData.tier])
        ELSE IF claimedTier[1].lowerBound # tierLower \/ claimedTier[1].upperBound # tierUpper
             THEN Invalid([text |-> "Tier bounds mismatch",
                           tier |-> proofData.tier,
                           proofLower |-> ToDecimal(tierLower),
                           proofUpper |-> ToDecimal(tierUpper),
                           expLower |-> ToDecimal(claimedTier[1].lowerBound),
                           expUpper |-> ToDecimal(claimedTier[1].upperBound)])
        ELSE [NoResult EXCEPT !.run = TRUE, !.valid = TRUE,
                              !.tier = proofData.tier,
                              !.tierLabel = proofData.tierLabel,
                              !.nullifier = ToDecimal(FromDecimal(proofData.publicSignals[3])),
                              !.timestamp = RoundToDouble(FromDecimal(proofData.publicSignals[4]))]

\* verify without its catch clause
verify_NoCatch(proofData) == verifyTry(proofData)

\* verify(proofData): the catch clause turns an exception into a result
verify(proofData) ==
    The({IF r.threw THEN Invalid(r.error) ELSE r : r \in {verifyTry(proofData)}})

----------------------------------------------------------------------------
(* nullifier.ts: generateNullifier.  A string is the sequence of its       *)
(* UTF-16 code units (here below 2^11), a buffer the sequence of its       *)
(* bytes, and the bigint read from a buffer the same bytes without leading *)
(* zero bytes.  Poseidon is an unknown injective function: its value is    *)
(* written as the bracketed list of its inputs, brackets being negative.   *)

\* String.prototype.toLowerCase on Basic Latin and Latin-1 letters
toLowerCase(str) ==
    [i \in 1..Len(str) |->
        IF str[i] \in 65..90 \/ (str[i] \in 192..222 /\ str[i] # 215)
        THEN str[i] + 32 ELSE str[i]]

\* the UTF-8 bytes of one code unit below 2^11
Utf8Char(c) == IF c < 128 THEN <<c>> ELSE <<192 + (c \div 64), 128 + (c % 64)>>

\* Buffer.from(str, "utf8")
RECURSIVE Utf8(_)
Utf8(str) == IF str = <<>> THEN <<>> ELSE Utf8Char(Head(str)) \o Utf8(Tail(str))

\* bytes.subarray(0, 31)
subarray31(bytes) == SubSeq(bytes, 1, IF Len(bytes) < 31 THEN Len(bytes) ELSE 31)

\* BigInt("0x" + bytes.toString("hex")); BigInt("0x") is a SyntaxError
HexBigInt(bytes) ==
    IF bytes = <<>> THEN [threw |-> TRUE, value |-> <<>>]
    ELSE [threw |-> FALSE, value |-> Norm(bytes)]

\* a < b for strings, by code units
StrLt(a, b) ==
    \E k \in 1..Len(b) :
        /\ \A j \in 1..(k - 1) : j <= Len(a) /\ a[j] = b[j]
        /\ k > Len(a) \/ a[k] < b[k]

\* the array left as it is
sort_None(arr) == arr

\* [...arr].sort(): ascending by code units, equal strings in their order
sort(arr) ==
    LET rank(i) == Cardinality({j \in 1..Len(arr) : StrLt(arr[j], arr[i])})
                   + Cardinality({j \in 1..(i - 1) : arr[j] = arr[i]}) + 1
    IN  [k \in 1..Len(arr) |-> arr[CHOOSE i \in 1..Len(arr) : rank(i) = k]]

RECURSIVE PoseidonArgs(_)
PoseidonArgs(inputs) ==
    IF inputs = <<>> THEN <<>> ELSE <<-2>> \o Head(inputs) \o PoseidonArgs(Tail(inputs))

\* poseidon.F.toObject(poseidon(inputs))
poseidon(inputs) == <<-1>> \o PoseidonArgs(inputs) \o <<-3>>

\* for (let i = 1; i < addressBigInts.length; i++) addressesHash = poseidon([addressesHash, addressBigInts[i]])
RECURSIVE hashChain(_, _, _)
hashChain(addressesHash, addressBigInts, i) ==
    IF i > Len(addressBigInts) THEN addressesHash
    ELSE hashChain(poseidon(<<addressesHash, addressBigInts[i]>>), addressBigInts, i + 1)

\* what a generateNullifier call ends with: the error thrown or the value
\* returned, and the number of poseidon calls made on the way
Raised(error, hashes) ==
    [threw |-> TRUE, error |-> error, hashes |-> hashes, value |-> <<>>]

Returned(value, hashes) ==
    [threw |-> FALSE, error |-> "", hashes |-> hashes, value |-> value]

\* the first definition in nullifier.ts: no check of the list, all the
\* addresses hashed by one poseidon call
generateNullifier_First(walletAddresses, userSecret) ==
    LET sorted == sort(walletAddresses)
        addressBigInts ==
            [i \in 1..Len(sorted) |-> HexBigInt(subarray31(Utf8(toLowerCase(sorted[i]))))]
        secretBigInt == HexBigInt(subarray31(Utf8(userSecret)))
        ints == [i \in 1..Len(sorted) |-> addressBigInts[i].value]
    IN  IF \E i \in 1..Len(sorted) : addressBigInts[i].threw
        THEN Raised("Cannot convert 0x to a BigInt", 0)
        ELSE IF Len(sorted) = 0 THEN Raised("poseidon: no inputs", 1)
        ELSE IF secretBigInt.threw THEN Raised("Cannot convert 0x to a BigInt", 1)
        ELSE Returned(poseidon(<<poseidon(ints), secretBigInt.value>>), 2)

generateNullifier(walletAddresses, userSecret) ==
    IF Len(walletAddresses) = 0
    THEN Raised("At least one wallet address is required", 0)
    ELSE
      LET sorted == sort(walletAddresses)
          addressBigInts ==
              [i \in 1..Len(sorted) |-> HexBigInt(subarray31(Utf8(toLowerCase(sorted[i]))))]
          secretBigInt == HexBigInt(subarray31(Utf8(userSecret)))
          ints == [i \in 1..Len(sorted) |-> addressBigInts[i].value]
          addressesHash == hashChain(poseidon(<<ints[1]>>), ints, 2)
      IN  IF \E i \in 1..Len(sorted) : addressBigInts[i].threw
          THEN Raised("Cannot convert 0x to a BigInt", 0)
          ELSE IF secretBigInt.threw
          THEN Raised("Cannot convert 0x to a BigInt", Len(sorted))
          ELSE Returned(poseidon(<<addressesHash, secretBigInt.value>>),
                        Len(sorted) + 1)

----------------------------------------------------------------------------
(* solana-submitter.ts: the byte encodings of a snarkjs proof and of the   *)
(* public signals.  A bigint is its sign and its magnitude; a string that  *)
(* BigInt parses is a string of decimal digits, possibly after a minus     *)
(* sign; a byte array is the sequence of its bytes.                        *)

\* the character "-" in a decimal string
Minus == 11

\* BigInt(str) returns (it throws a SyntaxError otherwise)
BigIntParses(str) ==
    \/ IsNumeric(str)
    \/ Len(str) >= 2 /\ str[1] = Minus /\ IsNumeric(Tail(str))

BigInt(str) ==
    IF str # <<>> /\ str[1] = Minus
    THEN [neg |-> FromDecimal(Tail(str)) # Zero, mag |-> FromDecimal(Tail(str))]
    ELSE [neg |-> FALSE, mag |-> FromDecimal(str)]

\* BigInt.prototype.toString
BigIntToString(bn) ==
    IF bn.neg THEN <<Minus>> \o ToDecimal(bn.mag) ELSE ToDecimal(bn.mag)

\* Number(bn & 0xffn): the low byte of the two's complement of bn
lowByte(bn) ==
    IF bn.neg THEN (256 - BModSmall(bn.mag, 256)) % 256 ELSE BModSmall(bn.mag, 256)

\* bn >> 8n: floor(bn / 256)
shiftRight8(bn) ==
    IF bn.neg THEN [neg |-> TRUE, mag |-> BDivSmall(BAdd(bn.mag, <<255>>), 256)]
    ELSE [neg |-> FALSE, mag |-> BDivSmall(bn.mag, 256)]

CURVE_ORDER ==
    <<21888, 242871, 839275, 222246, 405745, 257275, 88696, 311157, 297823,
      662689, 37894, 645226, 208583>>

\* for (let i = 31; i >= 0; i--) { bytes[i] = Number(bn & 0xffn); bn >>= 8n; }
\* with bytes[i + 1 .. 31] already written
RECURSIVE fillBytes(_, _, _)
fillBytes(bn, i, bytes) ==
    IF i < 0 THEN bytes
    ELSE The({fillBytes(next, i - 1, written) :
                next \in {shiftRight8(bn)}, written \in {<<lowByte(bn)>> \o bytes}})

\* every byte is written one place to the left: the array comes out least
\* significant byte first
decimalTo32BytesBE_LittleEndian(decStr) ==
    [i \in 1..32 |-> fillBytes(BigInt(decStr), 31, <<>>)[33 - i]]

decimalTo32BytesBE(decStr) == fillBytes(BigInt(decStr), 31, <<>>)

\* y is returned as it is
negateY_Identity(yDecStr) == yDecStr

negateY(yDecStr) ==
    The({IF y.mag = Zero THEN <<0>>
         ELSE IF y.neg THEN BigIntToString([neg |-> FALSE, mag |-> BAdd(CURVE_ORDER, y.mag)])
         ELSE IF BLe(y.mag, CURVE_ORDER)
              THEN BigIntToString([neg |-> FALSE, mag |-> BSub(CURVE_ORDER, y.mag)])
         ELSE BigIntToString([neg |-> TRUE, mag |-> BSub(y.mag, CURVE_ORDER)]) :
            y \in {BigInt(yDecStr)}})

encodeProofA(pi_a) ==
    decimalTo32BytesBE(pi_a[1]) \o decimalTo32BytesBE(negateY(pi_a[2]))

\* c0 and c1 in the order snarkjs gives them
encodeProofB_Unswapped(pi_b) ==
    decimalTo32BytesBE(pi_b[1][1]) \o decimalTo32BytesBE(pi_b[1][2])
    \o decimalTo32BytesBE(pi_b[2][1]) \o decimalTo32BytesBE(pi_b[2][2])

encodeProofB(pi_b) ==
    decimalTo32BytesBE(pi_b[1][2]) \o decimalTo32BytesBE(pi_b[1][1])
    \o decimalTo32BytesBE(pi_b[2][2]) \o decimalTo32BytesBE(pi_b[2][1])

\* y negated as for point A
encodeProofC_NegatedY(pi_c) ==
    decimalTo32BytesBE(pi_c[1]) \o decimalTo32BytesBE(negateY(pi_c[2]))

encodeProofC(pi_c) ==
    decimalTo32BytesBE(pi_c[1]) \o decimalTo32BytesBE(pi_c[2])

\* the signals taken last to first
encodePublicInputs_Reversed(publicSignals) ==
    [i \in 1..Len(publicSignals) |->
        decimalTo32BytesBE(publicSignals[Len(publicSignals) + 1 - i])]

encodePublicInputs(publicSignals) ==
    [i \in 1..Len(publicSignals) |-> decimalTo32BytesBE(publicSignals[i])]

\* createHash("sha256").update("global:verify_and_store_tier").digest().subarray(0, 8)
Discriminator == <<119, 71, 45, 19, 195, 186, 187, 207>>

\* Buffer.alloc(n)
BufferAlloc(n) == [i \in 1..n |-> 0]

\* source.copy(target, offset): the bytes that fit are written from offset on
BufferCopy(source, target, offset) ==
    [i \in 1..Len(target) |->
        IF i > offset /\ i <= offset + Len(source) THEN source[i - offset]
        ELSE target[i]]

\* for (const input of pubInputs) { Buffer.from(input).copy(data, offset); offset += 32; }
RECURSIVE copyInputs(_, _, _)
copyInputs(pubInputs, data, offset) ==
    IF pubInputs = <<>> THEN data
    ELSE copyInputs(Tail(pubInputs), BufferCopy(Head(pubInputs), data, offset),
                    offset + 32)

\* the data of the instruction buildVerifyInstruction returns
buildVerifyInstruction(proof, publicSignals) ==
    copyInputs(encodePublicInputs(publicSignals),
        BufferCopy(encodeProofC(proof.pi_c),
            BufferCopy(encodeProofB(proof.pi_b),
                BufferCopy(encodeProofA(proof.pi_a),
                    BufferCopy(Discriminator, BufferAlloc(8 + 64 + 128 + 64 + 4 * 32), 0),
                    8),
                8 + 64),
            8 + 64 + 128),
        8 + 64 + 128 + 64)

\* a * m for a small factor m (1 <= m <= 2000): carry[i] is the carry out of
\* digit i
BMulSmall(a, m) ==
    LET carry[i \in 1..(Len(a) + 1)] ==
            IF i = Len(a) + 1 THEN 0 ELSE (a[i] * m + carry[i + 1]) \div Base
    IN  IF a = <<>> THEN <<>>
        ELSE Norm(<<carry[1]>> \o [i \in 1..Len(a) |-> (a[i] * m + carry[i + 1]) % Base])

\* the unsigned integer a byte array stands for, most significant byte first
RECURSIVE BigEndianFrom(_, _)
BigEndianFrom(bytes, acc) ==
    IF bytes = <<>> THEN acc
    ELSE The({BigEndianFrom(Tail(bytes), next) :
                next \in {BAdd(BMulSmall(acc, 256), FromInt(Head(bytes)))}})

BigEndian(bytes) == BigEndianFrom(bytes, Zero)

Pow2_256 ==
    <<115792, 89237, 316195, 423570, 985008, 687907, 853269, 984665, 640564,
      39457, 584007, 913129, 639936>>

----------------------------------------------------------------------------
(* The on-chain program proof_of_love (Anchor): one TierBadge account per  *)
(* user at the address derived from "tier_badge" and the user's key.  The  *)
(* accounts are a set of records; times are Unix seconds.                  *)

PROGRAM_ID == "BBDtJxqUFWpCXMvZjtCFQyYGJ698o84H3RpqcJQjnGLR"

\* the user's key is left out of the seeds
deriveTierBadgePDA_NoUserSeed(userPubkey, programId) ==
    [address |-> <<"tier_badge", programId>>,
     bump |-> <<"bump", "tier_badge", programId>>]

\* PublicKey.findProgramAddressSync([TIER_BADGE_SEED, userPubkey], programId):
\* an address and a bump, both fixed by the seeds and the program
deriveTierBadgePDA(userPubkey, programId) ==
    [address |-> <<"tier_badge", userPubkey, programId>>,
     bump |-> <<"bump", "tier_badge", userPubkey, programId>>]

\* the accounts of the instruction buildVerifyInstruction returns
verifyInstructionKeys(userPubkey, programId) ==
    << [pubkey |-> userPubkey, isSigner |-> TRUE, isWritable |-> TRUE],
       [pubkey |-> deriveTierBadgePDA(userPubkey, programId).address,
        isSigner |-> FALSE, isWritable |-> TRUE],
       [pubkey |-> "SystemProgram", isSigner |-> FALSE, isWritable |-> FALSE] >>

\* the accounts the tests pass to revokeExpiredTier
revokeInstructionKeys(userPubkey, programId) ==
    << [pubkey |-> userPubkey, isSigner |-> TRUE, isWritable |-> TRUE],
       [pubkey |-> deriveTierBadgePDA(userPubkey, programId).address,
        isSigner |-> FALSE, isWritable |-> TRUE] >>

\* the validity window of a badge, in seconds
VALIDITY_PERIOD == 30 * 24 * 60 * 60

\* the program's own copy of the tier table: lower bound, upper bound, tier
ProgramTiers ==
    << [lower |-> Zero, upper |-> <<100000>>, tier |-> 1],
       [lower |-> <<100000>>, upper |-> <<1, 0>>, tier |-> 2],
       [lower |-> <<1, 0>>, upper |-> <<5, 0>>, tier |-> 3],
       [lower |-> <<5, 0>>, upper |-> <<25, 0>>, tier |-> 4],
       [lower |-> <<25, 0>>, upper |-> <<100, 0>>, tier |-> 5],
       [lower |-> <<100, 0>>, upper |-> <<500, 0>>, tier |-> 6],
       [lower |-> <<500, 0>>, upper |-> <<10000, 0, 0>>, tier |-> 7] >>

\* the tier whose bounds are exactly these, or Null
programTier(lower, upper) ==
    IF \E i \in 1..Len(ProgramTiers) :
          ProgramTiers[i].lower = lower /\ ProgramTiers[i].upper = upper
    THEN ProgramTiers[CHOOSE i \in 1..Len(ProgramTiers) :
            ProgramTiers[i].lower = lower /\ ProgramTiers[i].upper = upper].tier
    ELSE Null

\* the Groth16 check of groth16-solana: a proof passes for the public
\* inputs it was made for, and for no others
pairingCheck(proof, publicInputs) ==
    proof.wellFormed /\ proof.signals = publicInputs

\* the accounts at an address (none, or one)
AccountsAt(accounts, address) == {a \in accounts : a.address = address}

\* Absent, Active (before expires_at) or Expired (at or after it)
BadgeState(accounts, address, now) ==
    IF AccountsAt(accounts, address) = {} THEN "Absent"
    ELSE IF \E a \in AccountsAt(accounts, address) : now < a.expires_at THEN "Active"
    ELSE "Expired"

TierBadge(pda, user, tier, publicInputs, now) ==
    [address |-> pda.address, owner |-> user, tier |-> tier,
     tier_lower_bound |-> publicInputs[1], tier_upper_bound |-> publicInputs[2],
     verified_at |-> now, expires_at |-> now + VALIDITY_PERIOD, bump |-> pda.bump]

\* the expiry is counted from the time the proof carries (public input 3)
\* when the account exists already
storeBadge_KeepsExpiry(accounts, pda, user, tier, publicInputs, now) ==
    IF AccountsAt(accounts, pda.address) = {}
    THEN accounts \cup {TierBadge(pda, user, tier, publicInputs, now)}
    ELSE {IF a.address = pda.address
          THEN [TierBadge(pda, user, tier, publicInputs, now)
                    EXCEPT !.expires_at = a.expires_at]
          ELSE a : a \in accounts}

\* init_if_needed: the account at the derived address is created if there
\* is none, and written in any case
storeBadge(accounts, pda, user, tier, publicInputs, now) ==
    (accounts \ AccountsAt(accounts, pda.address))
        \cup {TierBadge(pda, user, tier, publicInputs, now)}

OkResult == [ok |-> TRUE, error |-> ""]
ErrResult(error) == [ok |-> FALSE, error |-> error]

\* every proof is taken for valid
verify_and_store_tier_NoPairingCheck(accounts, user, proof, publicInputs, now) ==
    IF programTier(publicInputs[1], publicInputs[2]) = Null
    THEN [accounts |-> accounts, result |-> ErrResult("InvalidTierBounds")]
    ELSE [accounts |-> storeBadge(accounts, deriveTierBadgePDA(user, PROGRAM_ID), user,
                                   programTier(publicInputs[1], publicInputs[2]),
                                   publicInputs, now),
          result |-> OkResult]

\* the bounds are looked up before the proof is checked
verify_and_store_tier_BoundsFirst(accounts, user, proof, publicInputs, now) ==
    IF programTier(publicInputs[1], publicInputs[2]) = Null
    THEN [accounts |-> accounts, result |-> ErrResult("InvalidTierBounds")]
    ELSE IF ~pairingCheck(proof, publicInputs)
    THEN [accounts |-> accounts, result |-> ErrResult("ProofVerificationFailed")]
    ELSE [accounts |-> storeBadge(accounts, deriveTierBadgePDA(user, PROGRAM_ID), user,
                                   programTier(publicInputs[1], publicInputs[2]),
                                   publicInputs, now),
          result |-> OkResult]

\* init instead of init_if_needed: an account that exists already makes
\* the instruction fail
verify_and_store_tier_InitOnly(accounts, user, proof, publicInputs, now) ==
    IF ~pairingCheck(proof, publicInputs)
    THEN [accounts |-> accounts, result |-> ErrResult("ProofVerificationFailed")]
    ELSE IF programTier(publicInputs[1], publicInputs[2]) = Null
    THEN [accounts |-> accounts, result |-> ErrResult("InvalidTierBounds")]
    ELSE IF AccountsAt(accounts, deriveTierBadgePDA(user, PROGRAM_ID).address) # {}
    THEN [accounts |-> accounts, result |-> ErrResult("AccountAlreadyInUse")]
    ELSE [accounts |-> storeBadge(accounts, deriveTierBadgePDA(user, PROGRAM_ID), user,
                                   programTier(publicInputs[1], publicInputs[2]),
                                   publicInputs, now),
          result |-> OkResult]

verify_and_store_tier(accounts, user, proof, publicInputs, now) ==
    IF ~pairingCheck(proof, publicInputs)
    THEN [accounts |-> accounts, result |-> ErrResult("ProofVerificationFailed")]
    ELSE IF programTier(publicInputs[1], publicInputs[2]) = Null
    THEN [accounts |-> accounts, result |-> ErrResult("InvalidTierBounds")]
    ELSE [accounts |-> storeBadge(accounts, deriveTierBadgePDA(user, PROGRAM_ID), user,
                                   programTier(publicInputs[1], publicInputs[2]),
                                   publicInputs, now),
          result |-> OkResult]

\* every expired account is closed, whoever owns it
revoke_expired_tier_AllUsers(accounts, user, now) ==
    IF BadgeState(accounts, deriveTierBadgePDA(user, PROGRAM_ID).address, now) = "Expired"
    THEN [accounts |-> {a \in accounts : now < a.expires_at}, result |-> OkResult]
    ELSE [accounts |-> accounts, result |-> ErrResult("BadgeNotExpired")]

\* the account is closed whenever it exists
revoke_expired_tier_NoExpiryCheck(accounts, user, now) ==
    IF AccountsAt(accounts, deriveTierBadgePDA(user, PROGRAM_ID).address) = {}
    THEN [accounts |-> accounts, result |-> ErrResult("BadgeNotExpired")]
    ELSE [accounts |-> accounts
                        \ AccountsAt(accounts, deriveTierBadgePDA(user, PROGRAM_ID).address),
          result |-> OkResult]

revoke_expired_tier(accounts, user, now) ==
    IF BadgeState(accounts, deriveTierBadgePDA(user, PROGRAM_ID).address, now) = "Expired"
    THEN [accounts |-> accounts
                        \ AccountsAt(accounts, deriveTierBadgePDA(user, PROGRAM_ID).address),
          result |-> OkResult]
    ELSE [accounts |-> accounts, result |-> ErrResult("BadgeNotExpired")]

----------------------------------------------------------------------------
(* Bounds and input sets                                                   *)

\* balances are taken within Delta cents of each tier boundary
Delta == 1

Pow2_62 == <<4, 611686, 18427, 387904>>

\* c + d for a TLC integer d (c + d >= 0)
Offset(c, d) == IF d >= 0 THEN BAdd(c, FromInt(d)) ELSE BSub(c, FromInt(-d))

Boundaries == {TIERS[i].lowerBound : i \in 1..Len(TIERS)} \cup {MAX_BALANCE}

NearBoundary ==
    {Offset(c, d) : c \in Boundaries \ {Zero}, d \in (-Delta)..Delta}
        \cup {FromInt(d) : d \in 0..Delta}

\* balance triples of the circuit test suite (tests/wealth_tier.test.js)
TestTriples ==
    { <<<<50000>>, <<60000>>, <<55000>>>>,
      <<<<10, 0>>, <<15, 0>>, <<12, 0>>>>,
      <<<<10, 0>>, <<3, 0>>, <<12, 0>>>>,
      <<<<3, 0>>, <<2, 0>>, <<1, 0>>>>,
      <<<<5, 0>>, <<5, 0>>, <<5, 1>>>>,
      <<<<5, 0>>, <<5, 1>>, <<5, 1>>>>,
      <<<<1, 0>>, <<20, 0>>, <<20, 0>>>>,
      <<<<10, 0, 0>>, <<12, 0, 0>>, <<11, 0, 0>>>> }

\* triples around one boundary: c + d1, c + d2, c + d3
BoundaryTriples ==
    {<<Offset(c, d[1]), Offset(c, d[2]), Offset(c, d[3])>> :
        c \in Boundaries \ {Zero},
        d \in ((-Delta)..Delta) \X ((-Delta)..Delta) \X ((-Delta)..Delta)}
    \cup {<<FromInt(d[1]), FromInt(d[2]), FromInt(d[3])>> :
            d \in (0..Delta) \X (0..Delta) \X (0..Delta)}

CircuitTriples == TestTriples \cup BoundaryTriples

\* balances above 2^53: the sum of three doubles is rounded
LargeTriples ==
    { <<MAX_BALANCE, MAX_BALANCE, Offset(MAX_BALANCE, -2)>>,
      <<Offset(MAX_BALANCE, -2), Offset(MAX_BALANCE, -2), Offset(MAX_BALANCE, -2)>>,
      <<Offset(MAX_BALANCE, -2), Offset(MAX_BALANCE, -4), Offset(MAX_BALANCE, -6)>>,
      <<<<30000, 0, 0>>, Zero, Zero>>,
      <<<<20000, 0, 0>>, MAX_BALANCE, <<50000>>>> }

TestNullifiers == {<<123, 456789>>, <<111, 111111>>}
TestTimestamps == {<<1708, 329600>>, <<1711, 8000>>}

\* floor((b1 + b2 + b3) / 3) over the integers
FloorAvg(b) == BDivSmall(BAdd(BAdd(b[1], b[2]), b[3]), 3)
SumMod3(b) == BModSmall(BAdd(BAdd(b[1], b[2]), b[3]), 3)

----------------------------------------------------------------------------
(* State                                                                   *)

VARIABLES
    cin,    \* input handed to the circuit's witness calculator
    cout,   \* its outcome
    gin,    \* inputs of the Avg3 gadget
    gwit,   \* the (avg, remainder) witness the prover supplied
    gres,   \* outcome of the gadget's constraints
    tq,     \* a tier-table query
    tres,   \* its result
    preq,   \* a call of WealthProver.generateProof / generateProofBrowser
    pout,   \* what the call passed to the backend and returned or threw
    vin,    \* the ProofData handed to WealthVerifier.verify
    vres,   \* the VerificationResult
    nin,    \* arguments of two generateNullifier calls
    nout,   \* their outcomes
    nsin,   \* arguments of two generateNullifier calls differing in one string
    nsout,  \* their outcomes
    ein,    \* the proof and public signals handed to the Solana encoders
    eout,   \* the encoded byte arrays and the instruction data
    clock,  \* the ledger time (Clock::get().unix_timestamp)
    badges, \* the TierBadge account of each user, if any
    tx      \* the last instruction sent to the program and how it ended

circuitVars == <<cin, cout>>
gadgetVars == <<gin, gwit, gres>>
tierVars == <<tq, tres>>
proverVars == <<preq, pout>>
verifierVars == <<vin, vres>>
nullifierVars == <<nin, nout>>
sensitivityVars == <<nsin, nsout>>
encoderVars == <<ein, eout>>
programVars == <<clock, badges, tx>>

vars ==
    <<circuitVars, gadgetVars, tierVars, proverVars, verifierVars, nullifierVars,
      sensitivityVars, encoderVars, programVars>>

NoInput ==
    [balance_1 |-> Zero, balance_2 |-> Zero, balance_3 |-> Zero,
     tier_lower_bound |-> Zero, tier_upper_bound |-> Zero,
     nullifier |-> Zero, timestamp |-> Zero]

NoWitness == [run |-> FALSE, accepted |-> FALSE, publicSignals |-> <<>>]
NoGadget == [run |-> FALSE, ok |-> FALSE, out |-> Zero]

NoQuery == [fn |-> "none", v |-> Zero, lower |-> Zero, upper |-> Zero, n |-> 0]
NoTier == [run |-> FALSE, tier |-> Null, lowerBound |-> Zero, upperBound |-> Zero]

InitCircuit == cin = NoInput /\ cout = NoWitness

InitGadget ==
    /\ gin = <<Zero, Zero, Zero>>
    /\ gwit = [avg |-> Zero, remainder |-> Zero]
    /\ gres = NoGadget

InitTiers == tq = NoQuery /\ tres = NoTier

NoRequest ==
    [fn |-> "none", hasPaths |-> FALSE, keysOk |-> FALSE,
     balances |-> <<Zero, Zero, Zero>>, nullifier |-> Zero, timestamp |-> Zero]

NoCall ==
    [run |-> FALSE, threw |-> FALSE, error |-> "", called |-> FALSE,
     inputs |-> NoInputs, data |-> NoProofData]

InitProver == preq = NoRequest /\ pout = NoCall

NoTamper == [kind |-> "none", data |-> NoProofData]

InitVerifier == vin = NoTamper /\ vres = NoResult

NoArgs == [walletAddresses |-> <<>>, permuted |-> <<>>, userSecret |-> <<>>]
NoOutcome == [threw |-> FALSE, error |-> "", hashes |-> 0, value |-> <<>>]
NoNullifiers == [run |-> FALSE, first |-> NoOutcome, second |-> NoOutcome]

InitNullifier == nin = NoArgs /\ nout = NoNullifiers

NoChange ==
    [walletAddresses |-> <<>>, userSecret |-> <<>>,
     changedAddresses |-> <<>>, changedSecret |-> <<>>]

InitSensitivity == nsin = NoChange /\ nsout = NoNullifiers

NoSnarkjsProof ==
    [pi_a |-> <<<<>>, <<>>, <<>>>>,
     pi_b |-> <<<<<<>>, <<>>>>, <<<<>>, <<>>>>, <<<<>>, <<>>>>>>,
     pi_c |-> <<<<>>, <<>>, <<>>>>]

NoEncoding ==
    [fn |-> "none", decStr |-> <<>>, proof |-> NoSnarkjsProof,
     publicSignals |-> <<<<>>, <<>>, <<>>, <<>>>>]

NoBytes ==
    [run |-> FALSE, threw |-> FALSE, bytes |-> <<>>, negY |-> <<>>, negNegY |-> <<>>,
     proofA |-> <<>>, proofB |-> <<>>, proofC |-> <<>>, pubInputs |-> <<>>,
     data |-> <<>>]

InitEncoder == ein = NoEncoding /\ eout = NoBytes

\* the ledger time at the start
Genesis == 1700000000

NoTx ==
    [op |-> "none", user |-> "", keys |-> <<>>, before |-> "Absent", time |-> Genesis,
     proof |-> NoProof, publicInputs |-> <<Zero, Zero, Zero, Zero>>,
     result |-> OkResult]

InitProgram == clock = Genesis /\ badges = {} /\ tx = NoTx

Init ==
    /\ InitCircuit /\ InitGadget /\ InitTiers
    /\ InitProver /\ InitVerifier /\ InitNullifier
    /\ InitSensitivity /\ InitEncoder /\ InitProgram

----------------------------------------------------------------------------
(* Circuit test harness: circuit.calculateWitness(input), one test case    *)
(* after the other                                                         *)

CalculateWitness ==
    /\ ~cout.run
    /\ \E b \in CircuitTriples, t \in 1..Len(TIERS),
          n \in TestNullifiers, ts \in TestTimestamps :
        LET inp == [balance_1 |-> b[1], balance_2 |-> b[2], balance_3 |-> b[3],
                    tier_lower_bound |-> TIERS[t].lowerBound,
                    tier_upper_bound |-> TIERS[t].upperBound,
                    nullifier |-> n, timestamp |-> ts]
            w   == WealthTier(inp)
        IN  /\ cin' = inp
            /\ cout' = [run |-> TRUE, accepted |-> w.accepted,
                        publicSignals |-> w.publicSignals]
    /\ UNCHANGED <<gadgetVars, tierVars, proverVars, verifierVars, nullifierVars,
                 sensitivityVars, encoderVars, programVars>>

NextCircuitTest ==
    /\ cout.run
    /\ cin' = NoInput
    /\ cout' = NoWitness
    /\ UNCHANGED <<gadgetVars, tierVars, proverVars, verifierVars, nullifierVars,
                 sensitivityVars, encoderVars, programVars>>

NextCircuit == CalculateWitness \/ NextCircuitTest

SpecCircuit == Init /\ [][NextCircuit]_vars

\* "Nullifier and Timestamp Binding": the same balances and bounds with
\* another nullifier or timestamp, here any of the field elements below
FieldElements == {Zero, Pow2_64, FSub(Zero, One)}

BindingPairs ==
    {<<<<222, 222222>>, <<1708, 329600>>>>, <<<<123, 456789>>, <<1711, 8000>>>>}
        \cup {<<n, n>> : n \in FieldElements}

CalculateWitnessBinding ==
    /\ ~cout.run
    /\ \E b \in TestTriples, t \in 1..Len(TIERS), c \in BindingPairs :
        LET inp == [balance_1 |-> b[1], balance_2 |-> b[2], balance_3 |-> b[3],
                    tier_lower_bound |-> TIERS[t].lowerBound,
                    tier_upper_bound |-> TIERS[t].upperBound,
                    nullifier |-> c[1], timestamp |-> c[2]]
            w   == WealthTier(inp)
        IN  /\ cin' = inp
            /\ cout' = [run |-> TRUE, accepted |-> w.accepted,
                        publicSignals |-> w.publicSignals]
    /\ UNCHANGED <<gadgetVars, tierVars, proverVars, verifierVars, nullifierVars,
                 sensitivityVars, encoderVars, programVars>>

NextBinding == CalculateWitnessBinding \/ NextCircuitTest

SpecBinding == Init /\ [][NextBinding]_vars

\* witnesses in which one balance is a field element of more than 64 bits:
\* 2^64, 2^64 + 50000, p - 2 and p - 1
Oversized == {Pow2_64, BAdd(Pow2_64, <<50000>>), FSub(Zero, Two), FSub(Zero, One)}

CalculateWitnessOversized ==
    /\ ~cout.run
    /\ \E b \in TestTriples, i \in 1..3, big \in Oversized, t \in 1..Len(TIERS) :
        LET bal == [b EXCEPT ![i] = big]
            inp == [balance_1 |-> bal[1], balance_2 |-> bal[2], balance_3 |-> bal[3],
                    tier_lower_bound |-> TIERS[t].lowerBound,
                    tier_upper_bound |-> TIERS[t].upperBound,
                    nullifier |-> <<123, 456789>>, timestamp |-> <<1708, 329600>>]
            w   == WealthTier(inp)
        IN  /\ cin' = inp
            /\ cout' = [run |-> TRUE, accepted |-> w.accepted,
                        publicSignals |-> w.publicSignals]
    /\ UNCHANGED <<gadgetVars, tierVars, proverVars, verifierVars, nullifierVars,
                 sensitivityVars, encoderVars, programVars>>

NextRange == CalculateWitnessOversized \/ NextCircuitTest

SpecRange == Init /\ [][NextRange]_vars

----------------------------------------------------------------------------
(* Avg3 with a witness chosen by the prover.  avg and remainder are        *)
(* assigned with <--, so a prover may supply any field elements; only the  *)
(* constraints bind them.                                                  *)

GadgetValues == {Zero, One, Two, <<5, 0>>, <<5, 1>>, BSub(Pow2_62, One), Pow2_62}

KTimesP(k) == IF k = 0 THEN Zero ELSE IF k = 1 THEN FieldP ELSE BAdd(FieldP, FieldP)

\* the one field element q with 3q + r = sum (mod FieldP)
LinearSolution(sum, r) ==
    LET t == FSub(sum, r)
        k == CHOOSE k \in 0..2 : BModSmall(BAdd(t, KTimesP(k)), 3) = 0
    IN  BDivSmall(BAdd(t, KTimesP(k)), 3)

RemainderCandidates == {Zero, One, Two, Three, BSub(FieldP, One), BSub(FieldP, Two)}

WitnessCandidates(in) ==
    {Avg3Hint(in)} \cup
    {[avg |-> q, remainder |-> r] :
        r \in RemainderCandidates,
        q \in {LinearSolution(Avg3Sum(in), r1) : r1 \in RemainderCandidates}
              \cup {Avg3Hint(in).avg, FAdd(Avg3Hint(in).avg, One)}}

Avg3Prove ==
    /\ ~gres.run
    /\ \E a \in GadgetValues, b \in {Zero, One, Pow2_62}, c \in {Zero, <<5, 1>>, Pow2_62} :
        \E w \in WitnessCandidates(<<a, b, c>>) :
            LET g == Avg3(<<a, b, c>>, w)
            IN  /\ gin' = <<a, b, c>>
                /\ gwit' = w
                /\ gres' = [run |-> TRUE, ok |-> g.ok, out |-> g.out]
    /\ UNCHANGED <<circuitVars, tierVars, proverVars, verifierVars, nullifierVars,
                 sensitivityVars, encoderVars, programVars>>

NextGadgetTest ==
    /\ gres.run
    /\ gin' = <<Zero, Zero, Zero>>
    /\ gwit' = [avg |-> Zero, remainder |-> Zero]
    /\ gres' = NoGadget
    /\ UNCHANGED <<circuitVars, tierVars, proverVars, verifierVars, nullifierVars,
                 sensitivityVars, encoderVars, programVars>>

NextGadget == Avg3Prove \/ NextGadgetTest

SpecGadget == Init /\ [][NextGadget]_vars

----------------------------------------------------------------------------
(* Tier-table lookups: one call after the other                            *)

\* m * 10^e as a number, e = 6z + r
PowerOfTen(m, r, z) == <<m * (10 ^ r)>> \o [i \in 1..z |-> 0]

\* amounts a caller can pass as a JavaScript number
LookupValues ==
    {v \in NearBoundary \cup {PowerOfTen(m, r, z) : m \in {1, 2, 5}, r \in 0..5, z \in 0..2} :
        IsDouble(v)}

BoundValues ==
    Boundaries \cup {DecodeTiers[i][2] : i \in 1..Len(DecodeTiers)}
               \cup {WebTIERS[i].upper : i \in 1..Len(WebTIERS)}

GetTierForBalance ==
    /\ ~tres.run
    /\ \E v \in LookupValues :
        LET t == getTierForBalance(v)
        IN  /\ tq' = [NoQuery EXCEPT !.fn = "getTierForBalance", !.v = v]
            /\ tres' = [run |-> TRUE, tier |-> t.tier,
                        lowerBound |-> t.lowerBound, upperBound |-> t.upperBound]
    /\ UNCHANGED <<circuitVars, gadgetVars, proverVars, verifierVars, nullifierVars,
                 sensitivityVars, encoderVars, programVars>>

GetTierByNumber ==
    /\ ~tres.run
    /\ \E n \in 0..(Len(TIERS) + 1) :
        LET t == getTierByNumber(n)
        IN  /\ tq' = [NoQuery EXCEPT !.fn = "getTierByNumber", !.n = n]
            /\ tres' = IF t = <<>> THEN [NoTier EXCEPT !.run = TRUE]
                       ELSE [run |-> TRUE, tier |-> t[1].tier,
                             lowerBound |-> t[1].lowerBound,
                             upperBound |-> t[1].upperBound]
    /\ UNCHANGED <<circuitVars, gadgetVars, proverVars, verifierVars, nullifierVars,
                 sensitivityVars, encoderVars, programVars>>

DecodeTier ==
    /\ ~tres.run
    /\ \E lo \in BoundValues, hi \in BoundValues :
        /\ tq' = [NoQuery EXCEPT !.fn = "decodeTier", !.lower = lo, !.upper = hi]
        /\ tres' = [run |-> TRUE, tier |-> decodeTier(lo, hi),
                    lowerBound |-> lo, upperBound |-> hi]
    /\ UNCHANGED <<circuitVars, gadgetVars, proverVars, verifierVars, nullifierVars,
                 sensitivityVars, encoderVars, programVars>>

WebGetTierForBalance ==
    /\ ~tres.run
    /\ \E v \in LookupValues :
        LET t == webGetTierForBalance(v)
        IN  /\ tq' = [NoQuery EXCEPT !.fn = "webGetTierForBalance", !.v = v]
            /\ tres' = [run |-> TRUE, tier |-> t.tier,
                        lowerBound |-> t.lower, upperBound |-> t.upper]
    /\ UNCHANGED <<circuitVars, gadgetVars, proverVars, verifierVars, nullifierVars,
                 sensitivityVars, encoderVars, programVars>>

NextLookup ==
    /\ tres.run
    /\ tq' = NoQuery
    /\ tres' = NoTier
    /\ UNCHANGED <<circuitVars, gadgetVars, proverVars, verifierVars, nullifierVars,
                 sensitivityVars, encoderVars, programVars>>

NextTiers ==
    \/ GetTierForBalance
    \/ GetTierByNumber
    \/ DecodeTier
    \/ WebGetTierForBalance
    \/ NextLookup

SpecTiers == Init /\ [][NextTiers]_vars

----------------------------------------------------------------------------
(* Prover and verifier: a proof is generated, handed to verify as it is or *)
(* altered on the way, and the next proof is generated.                    *)

\* JavaScript numbers: the triples whose three balances are doubles
ProverTriples ==
    {b \in CircuitTriples \cup LargeTriples : \A i \in 1..3 : IsDouble(b[i])}

\* nullifier and timestamp of a call
ProverCalls == {<<<<123, 456789>>, <<1708, 329600>>>>, <<<<111, 111111>>, <<1711, 8000>>>>}

\* artifact paths and key material fail on the test suite's triples only
Setups(b) == IF b \in TestTriples THEN BOOLEAN \X BOOLEAN ELSE {<<TRUE, TRUE>>}

GenerateProof ==
    /\ ~pout.run
    /\ \E b \in ProverTriples, c \in ProverCalls :
         \E setup \in Setups(b) :
            /\ preq' = [fn |-> "generateProof", hasPaths |-> setup[1], keysOk |-> setup[2],
                        balances |-> b, nullifier |-> c[1], timestamp |-> c[2]]
            /\ pout' = generateProof(setup[1], b, c[1], c[2], setup[2])
    /\ UNCHANGED <<circuitVars, gadgetVars, tierVars, verifierVars, nullifierVars,
                 sensitivityVars, encoderVars, programVars>>

\* preq.timestamp is the clock's value at the call
GenerateProofBrowser ==
    /\ ~pout.run
    /\ \E b \in ProverTriples, c \in ProverCalls :
         \E setup \in Setups(b) :
            /\ preq' = [fn |-> "generateProofBrowser", hasPaths |-> FALSE, keysOk |-> setup[2],
                        balances |-> b, nullifier |-> c[1], timestamp |-> c[2]]
            /\ pout' = generateProofBrowser(b, c[1], c[2], setup[2])
    /\ UNCHANGED <<circuitVars, gadgetVars, tierVars, verifierVars, nullifierVars,
                 sensitivityVars, encoderVars, programVars>>

\* a character that is no digit
NotADigit == 10

\* what may happen to a ProofData between prover and verifier
Tampered(kind, data, declared) ==
    LET claimedTier == getTierByNumber(declared)
        d == [data EXCEPT !.tier = declared]
    IN  IF kind = "bounds" /\ claimedTier # <<>>
        THEN [d EXCEPT !.publicSignals[1] = ToDecimal(claimedTier[1].lowerBound),
                       !.publicSignals[2] = ToDecimal(claimedTier[1].upperBound)]
        ELSE IF kind = "nonNumeric"
        THEN [d EXCEPT !.publicSignals[3] = <<NotADigit>> \o @]
        ELSE IF kind = "leadingZero"
        THEN [d EXCEPT !.publicSignals[1] = <<0>> \o @]
        ELSE IF kind = "malformed"
        THEN [d EXCEPT !.proof.wellFormed = FALSE]
        ELSE d

TamperKinds == {"none", "bounds", "nonNumeric", "leadingZero", "malformed"}

Verify ==
    /\ pout.run /\ ~pout.threw /\ ~vres.run
    /\ \E kind \in TamperKinds, declared \in {pout.data.tier} \cup (0..(Len(TIERS) + 1)) :
         LET data == Tampered(kind, pout.data, declared)
         IN  /\ vin' = [kind |-> kind, data |-> data]
             /\ vres' = verify(data)
    /\ UNCHANGED <<circuitVars, gadgetVars, tierVars, proverVars, nullifierVars,
                 sensitivityVars, encoderVars, programVars>>

NextProof ==
    /\ pout.run
    /\ preq' = NoRequest /\ pout' = NoCall
    /\ vin' = NoTamper /\ vres' = NoResult
    /\ UNCHANGED <<circuitVars, gadgetVars, tierVars, nullifierVars,
                 sensitivityVars, encoderVars, programVars>>

NextProver == GenerateProof \/ GenerateProofBrowser \/ Verify \/ NextProof

SpecProver == Init /\ [][NextProver]_vars

----------------------------------------------------------------------------
(* Nullifier derivation: the same wallets in two orders                    *)

\* wallet lists have at most MaxAddresses entries
MaxAddresses == 3

LongPrefix == [i \in 1..31 |-> 97]

\* "0xAb", "0xab", "B", "É", "", and a string of 32 characters
AddressPool ==
    { <<48, 120, 65, 98>>, <<48, 120, 97, 98>>, <<66>>, <<201>>, <<>>,
      LongPrefix \o <<49>> }

\* "s3" and a secret of 32 characters
SecretPool == { <<115, 51>>, LongPrefix \o <<51>> }

AddressLists == UNION {[1..n -> AddressPool] : n \in 0..MaxAddresses}

Orders(n) == {p \in [1..n -> 1..n] : \A i, j \in 1..n : p[i] = p[j] => i = j}

GenerateNullifier ==
    /\ ~nout.run
    /\ \E list \in AddressLists, secret \in SecretPool :
         \E p \in Orders(Len(list)) :
            LET permuted == [i \in 1..Len(list) |-> list[p[i]]]
            IN  /\ nin' = [walletAddresses |-> list, permuted |-> permuted,
                           userSecret |-> secret]
                /\ nout' = [run |-> TRUE,
                            first |-> generateNullifier(list, secret),
                            second |-> generateNullifier(permuted, secret)]
    /\ UNCHANGED <<circuitVars, gadgetVars, tierVars, proverVars, verifierVars,
                 sensitivityVars, encoderVars, programVars>>

NextNullifier ==
    /\ nout.run
    /\ nin' = NoArgs /\ nout' = NoNullifiers
    /\ UNCHANGED <<circuitVars, gadgetVars, tierVars, proverVars, verifierVars,
                 sensitivityVars, encoderVars, programVars>>

NextNullifiers == GenerateNullifier \/ NextNullifier

SpecNullifier == Init /\ [][NextNullifiers]_vars

----------------------------------------------------------------------------
(* Nullifier derivation: two calls that differ in one address or in the    *)
(* secret                                                                  *)

\* the changed wallet lists have at most MaxWallets entries
MaxWallets == 2

\* "0xAb", "0xab", "B", and two strings of 32 characters with the same
\* first 31
ChangePool ==
    { <<48, 120, 65, 98>>, <<48, 120, 97, 98>>, <<66>>,
      LongPrefix \o <<49>>, LongPrefix \o <<50>> }

\* "s3", "S3", and two secrets of 32 characters with the same first 31
ChangeSecrets ==
    { <<115, 51>>, <<83, 51>>, LongPrefix \o <<51>>, LongPrefix \o <<52>> }

ChangeLists == UNION {[1..n -> ChangePool] : n \in 1..MaxWallets}

ChangeOneAddress ==
    /\ ~nsout.run
    /\ \E list \in ChangeLists, secret \in ChangeSecrets :
         \E i \in 1..Len(list) : \E addr \in ChangePool \ {list[i]} :
            LET changed == [list EXCEPT ![i] = addr]
            IN  /\ nsin' = [walletAddresses |-> list, userSecret |-> secret,
                            changedAddresses |-> changed, changedSecret |-> secret]
                /\ nsout' = [run |-> TRUE,
                             first |-> generateNullifier(list, secret),
                             second |-> generateNullifier(changed, secret)]
    /\ UNCHANGED <<circuitVars, gadgetVars, tierVars, proverVars, verifierVars,
                   nullifierVars, encoderVars, programVars>>

ChangeSecret ==
    /\ ~nsout.run
    /\ \E list \in ChangeLists, secret \in ChangeSecrets :
         \E other \in ChangeSecrets \ {secret} :
            /\ nsin' = [walletAddresses |-> list, userSecret |-> secret,
                        changedAddresses |-> list, changedSecret |-> other]
            /\ nsout' = [run |-> TRUE,
                         first |-> generateNullifier(list, secret),
                         second |-> generateNullifier(list, other)]
    /\ UNCHANGED <<circuitVars, gadgetVars, tierVars, proverVars, verifierVars,
                   nullifierVars, encoderVars, programVars>>

NextChange ==
    /\ nsout.run
    /\ nsin' = NoChange /\ nsout' = NoNullifiers
    /\ UNCHANGED <<circuitVars, gadgetVars, tierVars, proverVars, verifierVars,
                   nullifierVars, encoderVars, programVars>>

NextSensitivity == ChangeOneAddress \/ ChangeSecret \/ NextChange

SpecSensitivity == Init /\ [][NextSensitivity]_vars

----------------------------------------------------------------------------
(* Nullifier derivation in the web demo: every EVM address is registered   *)
(* under four chains and the addresses of all registrations are passed on  *)

\* each text box holds at most MaxTyped addresses
MaxTyped == 1

TypedLists == UNION {[1..n -> ChangePool] : n \in 0..MaxTyped}

\* for (const addr of evmAddrs) { four wallets.push(...) }
RECURSIVE evmWallets(_)
evmWallets(evmAddrs) ==
    IF evmAddrs = <<>> THEN <<>>
    ELSE << [chain |-> "ethereum", address |-> Head(evmAddrs)],
            [chain |-> "arbitrum", address |-> Head(evmAddrs)],
            [chain |-> "base", address |-> Head(evmAddrs)],
            [chain |-> "hyperevm", address |-> Head(evmAddrs)] >>
         \o evmWallets(Tail(evmAddrs))

\* the wallets array of the demo
wallets(solAddrs, evmAddrs) ==
    [i \in 1..Len(solAddrs) |-> [chain |-> "solana", address |-> solAddrs[i]]]
        \o evmWallets(evmAddrs)

\* wallets.map((w) => w.address)
addressesOf(ws) == [i \in 1..Len(ws) |-> ws[i].address]

\* a list without its repeated entries (first occurrences kept)
RECURSIVE Distinct(_)
Distinct(list) ==
    IF list = <<>> THEN <<>>
    ELSE The({IF \E i \in 1..Len(front) : front[i] = list[Len(list)]
              THEN front ELSE Append(front, list[Len(list)]) :
                front \in {Distinct(SubSeq(list, 1, Len(list) - 1))}})

\* first: the nullifier of the distinct addresses; second: the demo's
RegisterWallets ==
    /\ ~nsout.run
    /\ \E solAddrs \in TypedLists, evmAddrs \in TypedLists, secret \in ChangeSecrets :
         LET passed == addressesOf(wallets(solAddrs, evmAddrs))
         IN  /\ nsin' = [walletAddresses |-> Distinct(passed), userSecret |-> secret,
                         changedAddresses |-> passed, changedSecret |-> secret]
             /\ nsout' = [run |-> TRUE,
                          first |-> generateNullifier(Distinct(passed), secret),
                          second |-> generateNullifier(passed, secret)]
    /\ UNCHANGED <<circuitVars, gadgetVars, tierVars, proverVars, verifierVars,
                   nullifierVars, encoderVars, programVars>>

NextRegistration == RegisterWallets \/ NextChange

SpecRegistration == Init /\ [][NextRegistration]_vars

----------------------------------------------------------------------------
(* Encoding for the on-chain verifier: decimalTo32BytesBE and negateY on   *)
(* single strings, buildVerifyInstruction on a proof and its signals       *)

\* "0", "1", "255", "256", "007", "", "-1", "1.5", and the decimal strings
\* of CURVE_ORDER - 1, CURVE_ORDER, CURVE_ORDER + 1, 2^256 - 1, 2^256
DecimalPool ==
    { <<0>>, <<1>>, <<2, 5, 5>>, <<2, 5, 6>>, <<0, 0, 7>>, <<>>, <<Minus, 1>>,
      <<1, NotADigit, 5>>,
      ToDecimal(BSub(CURVE_ORDER, One)), ToDecimal(CURVE_ORDER),
      ToDecimal(BAdd(CURVE_ORDER, One)),
      ToDecimal(BSub(Pow2_256, One)), ToDecimal(Pow2_256) }

\* a proof whose coordinates are all different: "11", "12", ..., and the
\* signals of a Tier 4 proof
BaseProof ==
    [pi_a |-> <<<<1, 1>>, <<1, 2>>, <<1>>>>,
     pi_b |-> <<<<<<2, 1>>, <<2, 2>>>>, <<<<2, 3>>, <<2, 4>>>>, <<<<1>>, <<0>>>>>>,
     pi_c |-> <<<<3, 1>>, <<3, 2>>, <<1>>>>]

BaseSignals ==
    <<ToDecimal(TIERS[4].lowerBound), ToDecimal(TIERS[4].upperBound),
      <<4, 1>>, <<1, 7, 0, 0, 0, 0, 0, 0, 0, 0>>>>

\* the strings of a proof and its signals, numbered: pi_a x y, pi_b x.c0
\* x.c1 y.c0 y.c1, pi_c x y, the four signals, then the z coordinates
Slots == 1..16

WithSlot(proof, k, v) ==
    IF k = 1 THEN [proof EXCEPT !.pi_a[1] = v]
    ELSE IF k = 2 THEN [proof EXCEPT !.pi_a[2] = v]
    ELSE IF k = 3 THEN [proof EXCEPT !.pi_b[1][1] = v]
    ELSE IF k = 4 THEN [proof EXCEPT !.pi_b[1][2] = v]
    ELSE IF k = 5 THEN [proof EXCEPT !.pi_b[2][1] = v]
    ELSE IF k = 6 THEN [proof EXCEPT !.pi_b[2][2] = v]
    ELSE IF k = 7 THEN [proof EXCEPT !.pi_c[1] = v]
    ELSE IF k = 8 THEN [proof EXCEPT !.pi_c[2] = v]
    ELSE IF k = 13 THEN [proof EXCEPT !.pi_a[3] = v]
    ELSE IF k = 14 THEN [proof EXCEPT !.pi_b[3][1] = v]
    ELSE IF k = 15 THEN [proof EXCEPT !.pi_b[3][2] = v]
    ELSE IF k = 16 THEN [proof EXCEPT !.pi_c[3] = v]
    ELSE proof

SignalsWithSlot(signals, k, v) ==
    IF k \in 9..12 THEN [signals EXCEPT ![k - 8] = v] ELSE signals

\* the strings buildVerifyInstruction hands to BigInt
ParsedStrings(proof, publicSignals) ==
    { proof.pi_a[1], proof.pi_a[2], proof.pi_b[1][1], proof.pi_b[1][2],
      proof.pi_b[2][1], proof.pi_b[2][2], proof.pi_c[1], proof.pi_c[2] }
    \cup { publicSignals[i] : i \in 1..Len(publicSignals) }

DecimalTo32BytesBE ==
    /\ ~eout.run
    /\ \E decStr \in DecimalPool :
         /\ ein' = [NoEncoding EXCEPT !.fn = "decimalTo32BytesBE", !.decStr = decStr]
         /\ eout' = IF BigIntParses(decStr)
                    THEN [NoBytes EXCEPT !.run = TRUE,
                                         !.bytes = decimalTo32BytesBE(decStr)]
                    ELSE [NoBytes EXCEPT !.run = TRUE, !.threw = TRUE]
    /\ UNCHANGED <<circuitVars, gadgetVars, tierVars, proverVars, verifierVars,
                   nullifierVars, sensitivityVars, programVars>>

NegateY ==
    /\ ~eout.run
    /\ \E yDecStr \in DecimalPool :
         /\ ein' = [NoEncoding EXCEPT !.fn = "negateY", !.decStr = yDecStr]
         /\ eout' = IF BigIntParses(yDecStr)
                    THEN [NoBytes EXCEPT !.run = TRUE,
                                         !.negY = negateY(yDecStr),
                                         !.negNegY = negateY(negateY(yDecStr))]
                    ELSE [NoBytes EXCEPT !.run = TRUE, !.threw = TRUE]
    /\ UNCHANGED <<circuitVars, gadgetVars, tierVars, proverVars, verifierVars,
                   nullifierVars, sensitivityVars, programVars>>

BuildVerifyInstruction ==
    /\ ~eout.run
    /\ \E k \in Slots, v \in DecimalPool :
         LET proof == WithSlot(BaseProof, k, v)
             publicSignals == SignalsWithSlot(BaseSignals, k, v)
         IN  /\ ein' = [NoEncoding EXCEPT !.fn = "buildVerifyInstruction",
                                          !.proof = proof,
                                          !.publicSignals = publicSignals]
             /\ eout' =
                  IF \A str \in ParsedStrings(proof, publicSignals) : BigIntParses(str)
                  THEN [NoBytes EXCEPT !.run = TRUE,
                            !.proofA = encodeProofA(proof.pi_a),
                            !.proofB = encodeProofB(proof.pi_b),
                            !.proofC = encodeProofC(proof.pi_c),
                            !.pubInputs = encodePublicInputs(publicSignals),
                            !.data = buildVerifyInstruction(proof, publicSignals)]
                  ELSE [NoBytes EXCEPT !.run = TRUE, !.threw = TRUE]
    /\ UNCHANGED <<circuitVars, gadgetVars, tierVars, proverVars, verifierVars,
                   nullifierVars, sensitivityVars, programVars>>

NextEncoding ==
    /\ eout.run
    /\ ein' = NoEncoding /\ eout' = NoBytes
    /\ UNCHANGED <<circuitVars, gadgetVars, tierVars, proverVars, verifierVars,
                   nullifierVars, sensitivityVars, programVars>>

NextEncoder == DecimalTo32BytesBE \/ NegateY \/ BuildVerifyInstruction \/ NextEncoding

SpecEncoder == Init /\ [][NextEncoder]_vars

----------------------------------------------------------------------------
(* The on-chain program: users send verify_and_store_tier and              *)
(* revoke_expired_tier while the ledger time advances                      *)

\* the ledger time is followed over MaxPeriods validity windows
MaxPeriods == 2

Users == {"user", "user2"}

\* the instants a whole number of validity windows after the start, and
\* the second before each
Instants ==
    {Genesis + k * VALIDITY_PERIOD - d : k \in 0..MaxPeriods, d \in {0, 1}}
        \ {Genesis - 1}

\* public inputs of a Tier 6 proof, of a Tier 5 proof, and of a proof for
\* bounds that are no tier: 999999 and 9999999
MoonInputs == <<<<100, 0>>, <<500, 0>>, <<41>>, <<1700, 0>>>>
OceanInputs == <<<<25, 0>>, <<100, 0>>, <<42>>, <<1700, 0>>>>
FakeInputs == <<<<999999>>, <<9, 999999>>, <<12345>>, <<1700, 0>>>>

InputPool == {MoonInputs, OceanInputs, FakeInputs}

\* a proof made for some inputs, or bytes that are no proof
ProofPool ==
    {[signals |-> i, wellFormed |-> TRUE] : i \in InputPool}
        \cup {[signals |-> MoonInputs, wellFormed |-> FALSE]}

VerifyAndStoreTier ==
    \E user \in Users, proof \in ProofPool, publicInputs \in InputPool :
        /\ tx' = [op |-> "verify_and_store_tier", user |-> user,
                  keys |-> verifyInstructionKeys(user, PROGRAM_ID),
                  before |-> BadgeState(badges,
                                 deriveTierBadgePDA(user, PROGRAM_ID).address, clock),
                  time |-> clock, proof |-> proof, publicInputs |-> publicInputs,
                  result |-> verify_and_store_tier(badges, user, proof,
                                                   publicInputs, clock).result]
        /\ badges' = verify_and_store_tier(badges, user, proof, publicInputs,
                                           clock).accounts
        /\ UNCHANGED clock
        /\ UNCHANGED <<circuitVars, gadgetVars, tierVars, proverVars, verifierVars,
                       nullifierVars, sensitivityVars, encoderVars>>

RevokeExpiredTier ==
    \E user \in Users :
        /\ tx' = [NoTx EXCEPT !.op = "revoke_expired_tier", !.user = user,
                       !.keys = revokeInstructionKeys(user, PROGRAM_ID),
                       !.before = BadgeState(badges,
                                     deriveTierBadgePDA(user, PROGRAM_ID).address, clock),
                       !.time = clock,
                       !.result = revoke_expired_tier(badges, user, clock).result]
        /\ badges' = revoke_expired_tier(badges, user, clock).accounts
        /\ UNCHANGED clock
        /\ UNCHANGED <<circuitVars, gadgetVars, tierVars, proverVars, verifierVars,
                       nullifierVars, sensitivityVars, encoderVars>>

\* the ledger time advances
Tick ==
    /\ \E t \in Instants : t > clock /\ clock' = t
    /\ UNCHANGED <<badges, tx>>
    /\ UNCHANGED <<circuitVars, gadgetVars, tierVars, proverVars, verifierVars,
                   nullifierVars, sensitivityVars, encoderVars>>

NextProgram == VerifyAndStoreTier \/ RevokeExpiredTier \/ Tick

SpecProgram == Init /\ [][NextProgram]_vars

----------------------------------------------------------------------------
(* solana-submitter.ts: submitProofToSolana, called with the ProofData of  *)
(* WealthProver                                                            *)

\* the public inputs the program reads from the instruction data
onChainInputs(publicSignals) ==
    [i \in 1..Len(publicSignals) |-> BigEndian(encodePublicInputs(publicSignals)[i])]

\* buildVerifyInstruction, sendAndConfirmTransaction (which throws when the
\* program fails), then decodeTier(tierLower, tierUpper) ?? 0
submitProofToSolana(accounts, proof, publicSignals, wallet, now) ==
    The({[accounts |-> sent.accounts, result |-> sent.result, threw |-> ~sent.result.ok,
          keys |-> verifyInstructionKeys(wallet, PROGRAM_ID),
          publicInputs |-> onChainInputs(publicSignals),
          tier |-> IF ~sent.result.ok THEN Null
                   ELSE IF decodeTier(BigInt(publicSignals[1]).mag,
                                      BigInt(publicSignals[2]).mag) = Null
                   THEN 0
                   ELSE decodeTier(BigInt(publicSignals[1]).mag,
                                   BigInt(publicSignals[2]).mag)] :
            sent \in {verify_and_store_tier(accounts, wallet,
                          [signals |-> [i \in 1..Len(proof.signals) |->
                                           FromDecimal(proof.signals[i])],
                           wellFormed |-> proof.wellFormed],
                          onChainInputs(publicSignals), now)}})

\* a proof for the test suite's balances
ProveForSubmission ==
    /\ ~pout.run
    /\ \E b \in TestTriples, c \in ProverCalls :
         /\ preq' = [fn |-> "generateProof", hasPaths |-> TRUE, keysOk |-> TRUE,
                     balances |-> b, nullifier |-> c[1], timestamp |-> c[2]]
         /\ pout' = generateProof(TRUE, b, c[1], c[2], TRUE)
    /\ UNCHANGED <<circuitVars, gadgetVars, tierVars, verifierVars, nullifierVars,
                   sensitivityVars, encoderVars, programVars>>

\* the proof is submitted by one of the users
SubmitProofToSolana ==
    /\ pout.run /\ ~pout.threw /\ tx.op = "none"
    /\ \E wallet \in Users :
         LET sub == submitProofToSolana(badges, pout.data.proof, pout.data.publicSignals,
                                        wallet, clock)
         IN  /\ tx' = [op |-> "submitProofToSolana", user |-> wallet, keys |-> sub.keys,
                       before |-> BadgeState(badges,
                                     deriveTierBadgePDA(wallet, PROGRAM_ID).address, clock),
                       time |-> clock,
                       proof |-> [signals |-> [i \in 1..4 |->
                                                 FromDecimal(pout.data.proof.signals[i])],
                                  wellFormed |-> pout.data.proof.wellFormed],
                       publicInputs |-> sub.publicInputs,
                       result |-> sub.result, threw |-> sub.threw, tier |-> sub.tier]
             /\ badges' = sub.accounts
    /\ UNCHANGED clock
    /\ UNCHANGED <<circuitVars, gadgetVars, tierVars, proverVars, verifierVars,
                   nullifierVars, sensitivityVars, encoderVars>>

NextSubmission ==
    /\ pout.run /\ (pout.threw \/ tx.op # "none")
    /\ preq' = NoRequest /\ pout' = NoCall /\ tx' = NoTx
    /\ UNCHANGED <<clock, badges>>
    /\ UNCHANGED <<circuitVars, gadgetVars, tierVars, verifierVars, nullifierVars,
                   sensitivityVars, encoderVars>>

NextSubmit == ProveForSubmission \/ SubmitProofToSolana \/ NextSubmission

SpecSubmit == Init /\ [][NextSubmit]_vars

----------------------------------------------------------------------------
(* Claims on the circuit                                                   *)

CinBalances == <<cin.balance_1, cin.balance_2, cin.balance_3>>

AvgInBounds ==
    /\ BLe(cin.tier_lower_bound, FloorAvg(CinBalances))
    /\ BLt(FloorAvg(CinBalances), cin.tier_upper_bound)

\* C1: the tier circuit accepts a witness exactly when the floor average of
\* the three balances is >= tier_lower_bound and < tier_upper_bound; the
\* triple [10_000_000, 3_000_000, 12_000_000] is accepted with Tier 4 bounds.
C1_AcceptsIffAvgInBounds ==
    cout.run => (cout.accepted <=> AvgInBounds)

\* C2: for a, b, c <= 2^62 the constraints of Avg3 are satisfied by exactly
\* one witness (q, r), q = floor((a+b+c)/3) and r = (a+b+c) mod 3, and the
\* output is that q; pairs that satisfy the sum identity only modulo the
\* field prime are rejected.
C2_Avg3UniqueWitness ==
    gres.run =>
        /\ gres.ok <=> (/\ gwit.avg = FloorAvg(gin)
                        /\ gwit.remainder = FromInt(SumMod3(gin)))
        /\ gres.ok => gres.out = FloorAvg(gin)

\* the honest witness is accepted for the largest inputs, with remainder 2
C2_Witness ==
    /\ gres.run /\ gres.ok
    /\ gin[1] = BSub(Pow2_62, One) /\ gin[2] = Pow2_62 /\ gin[3] = Pow2_62
    /\ gwit.remainder = Two

\* C3: with a tier's bounds as public inputs, a triple whose floor average
\* is exactly the lower bound is accepted and a triple whose floor average is
\* exactly the upper bound is rejected.
C3_BoundaryExact ==
    cout.run =>
        /\ FloorAvg(CinBalances) = cin.tier_lower_bound => cout.accepted
        /\ FloorAvg(CinBalances) = cin.tier_upper_bound => ~cout.accepted

----------------------------------------------------------------------------
(* Claims on the tier table                                                *)

\* the tiers whose range [lowerBound, upperBound) contains v
TiersContaining(v) ==
    {i \in 1..Len(TIERS) : BLe(TIERS[i].lowerBound, v) /\ BLt(v, TIERS[i].upperBound)}

\* C4: TIERS partitions [0, 10^16): it starts at 0, each upper bound is the
\* next lower bound, it ends at 10^16, and every v in [0, 10^16) lies in
\* exactly one tier, the one getTierForBalance(v) returns.
C4_TiersPartition ==
    /\ TIERS[1].lowerBound = Zero
    /\ \A i \in 1..(Len(TIERS) - 1) : TIERS[i].upperBound = TIERS[i + 1].lowerBound
    /\ TIERS[Len(TIERS)].upperBound = <<10000, 0, 0>>
    /\ (tres.run /\ tq.fn = "getTierForBalance" /\ BLt(tq.v, <<10000, 0, 0>>)) =>
           /\ Cardinality(TiersContaining(tq.v)) = 1
           /\ \A i \in TiersContaining(tq.v) :
                  /\ tres.tier = TIERS[i].tier
                  /\ tres.lowerBound = TIERS[i].lowerBound
                  /\ tres.upperBound = TIERS[i].upperBound

\* a lookup exactly on the boundary between Tier 6 and Tier 7
C4_Witness ==
    /\ tres.run /\ tq.fn = "getTierForBalance"
    /\ tq.v = <<500, 0>> /\ tres.tier = 7

\* C5: the core TIERS table, the table of decodeTier and the web demo's
\* TIERS list the same seven (tier, lower bound, upper bound) triples,
\* tier 7's upper bound of 10^16 included: decodeTier maps the bounds of
\* every core tier to its number and nothing else to it, and the web lookup
\* answers as getTierForBalance does.
C5_TablesAgree ==
    tres.run =>
        /\ tq.fn = "decodeTier" =>
              \A i \in 1..Len(TIERS) :
                  (tq.lower = TIERS[i].lowerBound /\ tq.upper = TIERS[i].upperBound)
                      <=> tres.tier = TIERS[i].tier
        /\ tq.fn = "webGetTierForBalance" =>
              /\ tres.tier = getTierForBalance(tq.v).tier
              /\ tres.lowerBound = getTierForBalance(tq.v).lowerBound
              /\ tres.upperBound = getTierForBalance(tq.v).upperBound

----------------------------------------------------------------------------
(* Claims on the prover and the verifier                                   *)

\* the four public signals as numbers
SignalsOf(publicSignals) == [i \in 1..4 |-> FromDecimal(publicSignals[i])]

\* C6: generateProof and generateProofBrowser hand the backend the TIERS
\* bounds of t = getTierForBalance(floor((b1 + b2 + b3) / 3)), the caller's
\* nullifier and the timestamp; what they return carries t.tier, t.label,
\* that timestamp, and the public signals in the order
\* [tier_lower_bound, tier_upper_bound, nullifier, timestamp].
C6_ProverPassesTierBounds ==
    (pout.run /\ pout.called) =>
        LET t == getTierForBalance(FloorAvg(preq.balances))
        IN  /\ FromDecimal(pout.inputs.tier_lower_bound) = t.lowerBound
            /\ FromDecimal(pout.inputs.tier_upper_bound) = t.upperBound
            /\ FromDecimal(pout.inputs.nullifier) = preq.nullifier
            /\ FromDecimal(pout.inputs.timestamp) = preq.timestamp
            /\ ~pout.threw =>
                  /\ pout.data.tier = t.tier
                  /\ pout.data.tierLabel = t.label
                  /\ pout.data.timestamp = preq.timestamp
                  /\ SignalsOf(pout.data.publicSignals)
                        = <<t.lowerBound, t.upperBound, preq.nullifier, preq.timestamp>>

\* C7: round trip.  For balances whose floor average is below 10^16 the
\* bounds generateProof chooses satisfy the circuit, so generation succeeds,
\* and verify of the returned ProofData is valid with the prover's tier.
C7_RoundTrip ==
    /\ (/\ pout.run /\ preq.fn = "generateProof" /\ preq.hasPaths /\ preq.keysOk
        /\ BLt(FloorAvg(preq.balances), MAX_BALANCE))
          => ~pout.threw
    /\ (vres.run /\ vin.data = pout.data)
          => (vres.valid /\ vres.tier = pout.data.tier)

\* C8: verify answers valid only for a well-formed proof of exactly the
\* signals presented, a declared tier among 1..7, and first two signals
\* equal to that tier's bounds; a genuine proof of tier 3's bounds declared
\* as tier 5 is rejected.
C8_ValidOnlyIfBoundsMatch ==
    vres.run =>
        LET d == vin.data
        IN  /\ vres.valid =>
                  /\ d.proof.wellFormed
                  /\ \A i \in 1..4 : IsNumeric(d.publicSignals[i])
                  /\ SignalsOf(d.publicSignals) = SignalsOf(d.proof.signals)
                  /\ d.tier \in 1..7
                  /\ FromDecimal(d.publicSignals[1]) = TIERS[d.tier].lowerBound
                  /\ FromDecimal(d.publicSignals[2]) = TIERS[d.tier].upperBound
            /\ (/\ d.proof = pout.data.proof /\ d.publicSignals = pout.data.publicSignals
                /\ pout.data.tier = 3 /\ d.tier = 5)
                  => ~vres.valid

C8_Witness ==
    /\ vres.run /\ ~vres.valid
    /\ vin.kind = "none" /\ vin.data.proof.wellFormed
    /\ pout.data.tier = 3 /\ vin.data.tier = 5
    /\ vres.error.text = "Tier bounds mismatch"

\* C9: verify never throws.  A false pairing check, an unknown tier, a
\* bound mismatch, a backend exception or a non-numeric signal give
\* valid = false with an error; the first three carry different texts, and
\* the mismatch error states the proof's bounds and the expected ones.
C9_VerifyNeverThrows ==
    vres.run =>
        LET d == vin.data
            numeric == \A i \in 1..4 : IsNumeric(d.publicSignals[i])
            pairing == /\ d.proof.wellFormed /\ numeric
                       /\ SignalsOf(d.publicSignals) = SignalsOf(d.proof.signals)
            known == d.tier \in 1..7
        IN  /\ ~vres.threw
            /\ (~d.proof.wellFormed \/ ~numeric) =>
                  (~vres.valid /\ vres.error.text # "")
            /\ (d.proof.wellFormed /\ numeric /\ ~pairing) =>
                  (~vres.valid /\ vres.error.text = "Invalid proof: verification failed")
            /\ (pairing /\ ~known) =>
                  (/\ ~vres.valid /\ vres.error.text = "Unknown tier number"
                   /\ vres.error.tier = d.tier)
            /\ (/\ pairing /\ known
                /\ \/ FromDecimal(d.publicSignals[1]) # TIERS[d.tier].lowerBound
                   \/ FromDecimal(d.publicSignals[2]) # TIERS[d.tier].upperBound) =>
                  (/\ ~vres.valid /\ vres.error.text = "Tier bounds mismatch"
                   /\ FromDecimal(vres.error.proofLower) = FromDecimal(d.publicSignals[1])
                   /\ FromDecimal(vres.error.proofUpper) = FromDecimal(d.publicSignals[2])
                   /\ FromDecimal(vres.error.expLower) = TIERS[d.tier].lowerBound
                   /\ FromDecimal(vres.error.expUpper) = TIERS[d.tier].upperBound)

C9_Witness ==
    /\ vres.run /\ ~vres.valid /\ ~vres.threw
    /\ vin.kind = "nonNumeric"
    /\ vres.error.text = "backend error"

----------------------------------------------------------------------------
(* Claims on the nullifier                                                 *)

\* C10: generateNullifier is order-independent: for a list of wallet
\* addresses, any permutation of it and any secret, both calls end the same
\* way, with the same value (or both failing).
C10_OrderIndependent ==
    nout.run => nout.first = nout.second

C10_Witness ==
    /\ nout.run /\ ~nout.first.threw
    /\ Len(nin.walletAddresses) >= 2
    /\ nin.permuted # nin.walletAddresses
    /\ sort(nin.walletAddresses) # nin.walletAddresses

\* C11: two generateNullifier calls whose inputs differ in exactly one
\* address string, or in the secret string only, and which both return,
\* return different nullifiers (Poseidon being injective); this includes
\* strings that differ only in letter case or only after their 31st byte.
C11_Sensitive ==
    (nsout.run /\ ~nsout.first.threw /\ ~nsout.second.threw) =>
        nsout.first.value # nsout.second.value

----------------------------------------------------------------------------
(* Claims on the encoding for the on-chain verifier                        *)

\* C13: decimalTo32BytesBE returns 32 bytes for every string of an integer,
\* and for 0 <= v < 2^256 the bytes read most significant byte first are v.
C13_ThirtyTwoBytesBigEndian ==
    (eout.run /\ ein.fn = "decimalTo32BytesBE" /\ ~eout.threw) =>
        /\ Len(eout.bytes) = 32
        /\ \A i \in 1..32 : eout.bytes[i] \in 0..255
        /\ (~BigInt(ein.decStr).neg /\ BLt(BigInt(ein.decStr).mag, Pow2_256)) =>
              BigEndian(eout.bytes) = BigInt(ein.decStr).mag

C13_Witness ==
    /\ eout.run /\ ein.fn = "decimalTo32BytesBE" /\ ~eout.threw
    /\ ein.decStr = ToDecimal(BSub(Pow2_256, One))
    /\ \A i \in 1..32 : eout.bytes[i] = 255

\* a string of an integer v with 0 <= v < bound
InRange(str, bound) == ~BigInt(str).neg /\ BLt(BigInt(str).mag, bound)

Built == eout.run /\ ein.fn = "buildVerifyInstruction" /\ ~eout.threw

\* C14: encodeProofA returns 64 bytes; the first 32 encode pi_a[0]; the
\* last 32 encode y', which for 0 <= y < CURVE_ORDER is 0 when y = 0 and
\* CURVE_ORDER - y otherwise, is below CURVE_ORDER and adds up with y to 0
\* modulo CURVE_ORDER; negateY applied twice gives y back.
C14_ProofANegatesY ==
    /\ Built =>
          /\ Len(eout.proofA) = 64
          /\ InRange(ein.proof.pi_a[1], Pow2_256) =>
                BigEndian(SubSeq(eout.proofA, 1, 32)) = BigInt(ein.proof.pi_a[1]).mag
          /\ InRange(ein.proof.pi_a[2], CURVE_ORDER) =>
                \A y \in {BigInt(ein.proof.pi_a[2]).mag} :
                \A negY \in {BigEndian(SubSeq(eout.proofA, 33, 64))} :
                    /\ y = Zero => negY = Zero
                    /\ y # Zero => negY = BSub(CURVE_ORDER, y)
                    /\ BLt(negY, CURVE_ORDER)
                    /\ BAdd(y, negY) \in {Zero, CURVE_ORDER}
    /\ (eout.run /\ ein.fn = "negateY" /\ ~eout.threw
          /\ InRange(ein.decStr, CURVE_ORDER)) =>
          /\ BigInt(eout.negNegY) = BigInt(ein.decStr)
          /\ InRange(eout.negY, CURVE_ORDER)

C14_Witness ==
    /\ Built
    /\ ein.proof.pi_a[2] = ToDecimal(BSub(CURVE_ORDER, One))
    /\ BigEndian(SubSeq(eout.proofA, 33, 64)) = One

\* the integer encoded in the 32 bytes after the first offset bytes
Slot32(bytes, offset) == BigEndian(SubSeq(bytes, offset + 1, offset + 32))

\* C15: encodeProofB returns 128 bytes laid out as x.c1, x.c0, y.c1, y.c0
\* for pi_b = [[x.c0, x.c1], [y.c0, y.c1], z]: each 32-byte slot is the
\* big-endian encoding of that coordinate, and the third pair is not read.
C15_ProofBSwapsPairs ==
    Built =>
        /\ Len(eout.proofB) = 128
        /\ InRange(ein.proof.pi_b[1][2], Pow2_256) =>
              Slot32(eout.proofB, 0) = BigInt(ein.proof.pi_b[1][2]).mag
        /\ InRange(ein.proof.pi_b[1][1], Pow2_256) =>
              Slot32(eout.proofB, 32) = BigInt(ein.proof.pi_b[1][1]).mag
        /\ InRange(ein.proof.pi_b[2][2], Pow2_256) =>
              Slot32(eout.proofB, 64) = BigInt(ein.proof.pi_b[2][2]).mag
        /\ InRange(ein.proof.pi_b[2][1], Pow2_256) =>
              Slot32(eout.proofB, 96) = BigInt(ein.proof.pi_b[2][1]).mag
        /\ (ein.proof.pi_b[1] = BaseProof.pi_b[1] /\ ein.proof.pi_b[2] = BaseProof.pi_b[2]) =>
              /\ Slot32(eout.proofB, 0) = <<22>> /\ Slot32(eout.proofB, 32) = <<21>>
              /\ Slot32(eout.proofB, 64) = <<24>> /\ Slot32(eout.proofB, 96) = <<23>>

C15_Witness ==
    /\ Built
    /\ ein.proof.pi_b[3][1] = <<1, NotADigit, 5>>
    /\ ein.proof.pi_b[1] = <<<<2, 1>>, <<2, 2>>>>
    /\ Slot32(eout.proofB, 0) = <<22>> /\ Slot32(eout.proofB, 32) = <<21>>

\* C16: encodePublicInputs returns four arrays of 32 bytes, the i-th
\* encoding the i-th signal (tier_lower_bound, tier_upper_bound, nullifier,
\* timestamp), and the instruction data is the 8-byte discriminator, the 64
\* bytes of proof_a, the 128 of proof_b, the 64 of proof_c and the four
\* inputs in that order: 392 bytes.
C16_InstructionLayout ==
    Built =>
        /\ Len(eout.pubInputs) = 4
        /\ \A i \in 1..4 :
              /\ Len(eout.pubInputs[i]) = 32
              /\ InRange(ein.publicSignals[i], Pow2_256) =>
                    BigEndian(eout.pubInputs[i]) = BigInt(ein.publicSignals[i]).mag
              /\ SubSeq(eout.data, 264 + 32 * (i - 1) + 1, 264 + 32 * i)
                    = eout.pubInputs[i]
        /\ Len(eout.data) = 392
        /\ SubSeq(eout.data, 1, 8) = Discriminator
        /\ SubSeq(eout.data, 9, 72) = eout.proofA
        /\ SubSeq(eout.data, 73, 200) = eout.proofB
        /\ SubSeq(eout.data, 201, 264) = eout.proofC

C16_Witness ==
    /\ Built
    /\ ein.publicSignals = BaseSignals
    /\ Slot32(eout.data, 264) = TIERS[4].lowerBound
    /\ Slot32(eout.data, 296) = TIERS[4].upperBound
    /\ Slot32(eout.data, 328) = <<41>>
    /\ Slot32(eout.data, 360) = <<1700, 0>>

\* C17: the encoders change no coordinate but the y of point A: read back
\* as big-endian integers the bytes give pi_a[0], pi_c[0], pi_c[1] (64
\* bytes, x then y) and the four coordinates of B; nothing is rejected:
\* a coordinate that is no element of the field (CURVE_ORDER or more) is
\* encoded like any other.
C17_OnlyAyChanges ==
    (eout.run /\ ein.fn = "buildVerifyInstruction") =>
        /\ eout.threw <=>
              \E str \in ParsedStrings(ein.proof, ein.publicSignals) : ~BigIntParses(str)
        /\ ~eout.threw =>
              /\ Len(eout.proofA) = 64 /\ Len(eout.proofB) = 128 /\ Len(eout.proofC) = 64
              /\ \A c \in { <<ein.proof.pi_a[1], eout.proofA, 0>>,
                             <<ein.proof.pi_c[1], eout.proofC, 0>>,
                             <<ein.proof.pi_c[2], eout.proofC, 32>>,
                             <<ein.proof.pi_b[1][2], eout.proofB, 0>>,
                             <<ein.proof.pi_b[1][1], eout.proofB, 32>>,
                             <<ein.proof.pi_b[2][2], eout.proofB, 64>>,
                             <<ein.proof.pi_b[2][1], eout.proofB, 96>> } :
                    InRange(c[1], Pow2_256) => Slot32(c[2], c[3]) = BigInt(c[1]).mag

C17_Witness ==
    /\ Built
    /\ ein.proof.pi_c[2] = ToDecimal(CURVE_ORDER)
    /\ Slot32(eout.proofC, 32) = CURVE_ORDER
    /\ Slot32(eout.proofC, 0) = <<31>>

----------------------------------------------------------------------------
(* Claims on the on-chain program                                          *)

\* the record of the user of the last instruction
TxAddress == deriveTierBadgePDA(tx.user, PROGRAM_ID).address

VerifiedNow == tx.op = "verify_and_store_tier" /\ tx.result.ok /\ tx.time = clock

\* C18: right after a successful verify_and_store_tier by u, u's record has
\* owner u, the tier whose table bounds are public inputs 0 and 1, these
\* inputs as its bounds, verified_at = the ledger time of the call and
\* expires_at = verified_at + 30 * 24 * 60 * 60; and in every reachable
\* state every record has expires_at = verified_at + 30 * 24 * 60 * 60.
C18_RecordAfterVerify ==
    /\ (tx.op = "verify_and_store_tier" /\ tx.result.ok) =>
          \E i \in 1..Len(ProgramTiers) :
              /\ ProgramTiers[i].lower = tx.publicInputs[1]
              /\ ProgramTiers[i].upper = tx.publicInputs[2]
              /\ \E a \in AccountsAt(badges, TxAddress) :
                        /\ a.owner = tx.user
                        /\ a.tier = ProgramTiers[i].tier
                        /\ a.tier_lower_bound = tx.publicInputs[1]
                        /\ a.tier_upper_bound = tx.publicInputs[2]
                        /\ a.verified_at = tx.time
                        /\ a.expires_at = tx.time + 2592000
    /\ \A a \in badges : a.expires_at = a.verified_at + 2592000

C18_Witness ==
    /\ VerifiedNow /\ tx.user = "user2" /\ tx.publicInputs = OceanInputs
    /\ \E a \in badges : a.owner = "user2" /\ a.tier = 5 /\ a.verified_at > Genesis

\* C19: verify_and_store_tier with a valid proof for the bounds of a tier
\* succeeds whether the caller's record was Absent, Active or Expired;
\* afterwards there is exactly one record at the caller's derived address
\* and none elsewhere for that owner, its verified_at is the ledger time
\* of the call and its expires_at is not smaller than that of the record
\* it replaced.
C19_ReverifyInPlace ==
    [][ (/\ tx'.op = "verify_and_store_tier"
         /\ badges' # badges \/ tx' # tx
         /\ pairingCheck(tx'.proof, tx'.publicInputs)
         /\ programTier(tx'.publicInputs[1], tx'.publicInputs[2]) # Null) =>
            /\ tx'.result.ok
            /\ tx'.before = BadgeState(badges,
                                deriveTierBadgePDA(tx'.user, PROGRAM_ID).address, clock)
            /\ Cardinality({a \in badges' : a.owner = tx'.user}) = 1
            /\ \A a \in badges' :
                  a.owner = tx'.user =>
                    /\ a.address = deriveTierBadgePDA(tx'.user, PROGRAM_ID).address
                    /\ a.verified_at = clock
                    /\ a.expires_at = clock + 2592000
                    /\ \A old \in badges :
                          old.owner = tx'.user => a.expires_at >= old.expires_at
            /\ {a \in badges' : a.owner # tx'.user}
                  = {a \in badges : a.owner # tx'.user} ]_vars

C19_Witness ==
    /\ VerifiedNow /\ tx.before = "Expired"
    /\ \E a \in badges : a.owner = tx.user /\ a.verified_at = clock

\* C20: revoke_expired_tier deletes the caller's record when the record
\* exists and the ledger time is at or after its expires_at, and only
\* then; otherwise (no record, or time before expires_at) it fails with
\* BadgeNotExpired and changes nothing; and no step of any kind removes a
\* record before its expires_at.
C20_RevokeOnlyExpired ==
    [][ /\ (tx'.op = "revoke_expired_tier" /\ (badges' # badges \/ tx' # tx)) =>
              IF \E a \in badges : a.owner = tx'.user /\ clock >= a.expires_at
              THEN /\ tx'.result.ok
                   /\ badges' = {a \in badges : a.owner # tx'.user}
              ELSE /\ ~tx'.result.ok
                   /\ tx'.result.error = "BadgeNotExpired"
                   /\ badges' = badges
        /\ \A a \in badges :
              (\A b \in badges' : b.address # a.address) =>
                  /\ clock >= a.expires_at
                  /\ tx'.op = "revoke_expired_tier" /\ tx'.user = a.owner ]_vars

C20_Witness ==
    /\ tx.op = "revoke_expired_tier" /\ tx.result.ok /\ tx.before = "Expired"
    /\ tx.time = Genesis + 2592000
    /\ \A a \in badges : a.owner # tx.user

\* a step that sends an instruction
Sent == badges' # badges \/ tx' # tx

\* C21: a verify_and_store_tier call whose pairing check fails is rejected
\* with ProofVerificationFailed and changes no account: none is created,
\* and an existing record keeps every field.
C21_FailedVerifyChangesNothing ==
    [][ (/\ tx'.op = "verify_and_store_tier" /\ Sent
         /\ ~(tx'.proof.wellFormed /\ tx'.proof.signals = tx'.publicInputs)) =>
            /\ ~tx'.result.ok
            /\ tx'.result.error = "ProofVerificationFailed"
            /\ badges' = badges ]_vars

C21_Witness ==
    /\ tx.op = "verify_and_store_tier" /\ ~tx.result.ok
    /\ tx.proof = [signals |-> MoonInputs, wellFormed |-> TRUE]
    /\ tx.publicInputs = OceanInputs
    /\ tx.before = "Active"
    /\ \E a \in badges : a.owner = tx.user /\ a.tier = 6

\* the (lower, upper) pairs of the program's tier table
TablePairs == {<<ProgramTiers[i].lower, ProgramTiers[i].upper>> : i \in 1..7}

\* C22: a call whose proof verifies but whose public inputs 0 and 1 are no
\* pair of the program's tier table fails with InvalidTierBounds and
\* changes no account; a call whose proof does not verify fails with
\* ProofVerificationFailed whatever its bounds; and no record holds bounds
\* that are not a pair of the table.
C22_BoundsAfterPairing ==
    /\ [](\A a \in badges : <<a.tier_lower_bound, a.tier_upper_bound>> \in TablePairs)
    /\ [][ (tx'.op = "verify_and_store_tier" /\ Sent) =>
              IF ~(tx'.proof.wellFormed /\ tx'.proof.signals = tx'.publicInputs)
              THEN ~tx'.result.ok /\ tx'.result.error = "ProofVerificationFailed"
              ELSE IF <<tx'.publicInputs[1], tx'.publicInputs[2]>> \notin TablePairs
              THEN /\ ~tx'.result.ok /\ tx'.result.error = "InvalidTierBounds"
                   /\ badges' = badges
              ELSE tx'.result.ok ]_vars

C22_Witness ==
    /\ tx.op = "verify_and_store_tier" /\ ~tx.result.ok
    /\ tx.result.error = "InvalidTierBounds"
    /\ tx.proof = [signals |-> FakeInputs, wellFormed |-> TRUE]
    /\ tx.publicInputs = FakeInputs

\* C23: every instruction, successful or not, changes at most the record
\* of its caller, at the caller's derived address: the records of every
\* other user stay as they are.
C23_Isolation ==
    [][ Sent =>
          /\ {a \in badges' : a.owner # tx'.user} = {a \in badges : a.owner # tx'.user}
          /\ \A a \in (badges' \ badges) \cup (badges \ badges') :
                a.address = <<"tier_badge", tx'.user, PROGRAM_ID>> ]_vars

C23_Witness ==
    /\ tx.op = "revoke_expired_tier" /\ tx.result.ok /\ tx.user = "user"
    /\ \E a \in badges : a.owner = "user2" /\ a.expires_at <= clock

\* C24: there is at most one record per user; the address of a record is
\* made of the label "tier_badge", its owner's key and the program id, and
\* of nothing else; the instruction built for a user names that user's
\* derived address as the badge account.
C24_OneRecordPerUser ==
    /\ \A a, b \in badges : a.owner = b.owner => a = b
    /\ \A a \in badges : a.address = <<"tier_badge", a.owner, PROGRAM_ID>>
    /\ \A a, b \in badges : a.address = b.address => a = b
    /\ tx.op # "none" =>
          /\ tx.keys[1].pubkey = tx.user /\ tx.keys[1].isSigner
          /\ tx.keys[2].pubkey = <<"tier_badge", tx.user, PROGRAM_ID>>
          /\ tx.keys[2].isWritable

C24_Witness ==
    /\ Cardinality(badges) = 2
    /\ tx.op = "verify_and_store_tier" /\ tx.result.ok /\ tx.before = "Active"
    /\ tx.time > Genesis

----------------------------------------------------------------------------
(* Claims about failing proof generation                                   *)

\* the backend call of the last request fails: unusable key material or a
\* witness the circuit rejects
BackendFails ==
    \/ ~preq.keysOk
    \/ ~WealthTier(CircuitInputOf(pout.inputs)).accepted

\* C25: generateProof without artifact paths throws before the tier lookup,
\* the inputs and the backend call; whenever the backend fails, generateProof
\* and generateProofBrowser throw their own error and return no ProofData;
\* a call that returns has a well-formed proof and the four public signals
\* the proof was made for.  (Stated of the call as it returns, before the
\* ProofData is handed on.)
C25_StrictFail ==
    (pout.run /\ ~vres.run) =>
        /\ (preq.fn = "generateProof" /\ ~preq.hasPaths) =>
               /\ pout.threw /\ ~pout.called
               /\ pout.error = "Prover not initialized with artifact paths"
               /\ pout.inputs = NoInputs /\ pout.data = NoProofData
        /\ pout.called =>
               The({/\ fails => pout.threw
                    /\ (fails /\ pout.threw) =>
                          pout.error = IF preq.fn = "generateProof"
                                       THEN "Proof generation failed"
                                       ELSE "Browser proof generation failed"
                    /\ ~pout.threw => ~fails :
                        fails \in {BackendFails}})
        /\ ~pout.threw =>
               /\ pout.called
               /\ pout.data.proof.wellFormed
               /\ Len(pout.data.publicSignals) = 4
               /\ pout.data.proof.signals = pout.data.publicSignals
        /\ pout.threw => pout.data = NoProofData

\* a call with usable key material whose witness the circuit rejects
C25_Witness ==
    /\ pout.run /\ pout.called /\ pout.threw
    /\ preq.fn = "generateProofBrowser" /\ preq.keysOk
    /\ ~WealthTier(CircuitInputOf(pout.inputs)).accepted
    /\ pout.error = "Browser proof generation failed"
    /\ pout.data = NoProofData

----------------------------------------------------------------------------
(* Claims about the nullifier and timestamp inputs of the circuit          *)

\* the constraints of steps 1 to 4 of wealth_tier.circom alone
TierConstraints(inp) ==
    LET min3 == Min3(<<inp.balance_1, inp.balance_2, inp.balance_3>>)
        gte_lower == GreaterEqThan(min3.out, inp.tier_lower_bound)
        lt_upper == LessThan(min3.out, inp.tier_upper_bound)
    IN  /\ min3.ok /\ gte_lower.ok /\ lt_upper.ok
        /\ AND(gte_lower.out, lt_upper.out) = One

\* C26: for the balances and bounds of a run, whatever its nullifier and
\* timestamp (0 and p - 1 included), the circuit accepts exactly if it
\* accepts with each other (nullifier, timestamp) pair, and exactly if the
\* constraints of steps 1 to 4 hold: the two squaring constraints reject
\* nothing.
C26_AcceptanceIgnoresBinding ==
    cout.run =>
        /\ cout.accepted = TierConstraints(cin)
        /\ \A c \in BindingPairs :
              WealthTier([cin EXCEPT !.nullifier = c[1], !.timestamp = c[2]]).accepted
                  = cout.accepted

\* an accepted run whose nullifier and timestamp are both p - 1
C26_Witness ==
    /\ cout.run /\ cout.accepted
    /\ cin.nullifier = FSub(Zero, One) /\ cin.timestamp = FSub(Zero, One)
    /\ cout.publicSignals[3] = FSub(Zero, One)

----------------------------------------------------------------------------
(* Claims about repeated addresses                                         *)

\* C27: a generateNullifier call on a list that repeats addresses returns
\* the nullifier of the list with the repetitions removed (same secret).
C27_DuplicatesIgnored ==
    (/\ nsout.run /\ ~nsout.first.threw /\ ~nsout.second.threw
     /\ nsin.changedSecret = nsin.userSecret
     /\ nsin.walletAddresses = Distinct(nsin.changedAddresses)) =>
        nsout.first.value = nsout.second.value

----------------------------------------------------------------------------
(* Claims about balances of more than 64 bits                              *)

\* C28: a witness in which some balance is a field element that does not
\* fit in 64 bits is rejected by the circuit.
C28_BalancesFit64Bits ==
    (cout.run /\ \E b \in {cin.balance_1, cin.balance_2, cin.balance_3} :
                    ~BLt(b, Pow2_64)) =>
        ~cout.accepted

----------------------------------------------------------------------------
(* Claims about the tier submitProofToSolana returns                       *)

\* C29: decodeTier maps the bounds of every tier of TIERS to its number:
\* a successful submitProofToSolana of a proof of WealthProver returns the
\* tier the prover reported, never the placeholder 0.
C29_SubmitReturnsProverTier ==
    (tx.op = "submitProofToSolana" /\ ~tx.threw) =>
        /\ decodeTier(TIERS[pout.data.tier].lowerBound,
                      TIERS[pout.data.tier].upperBound) = pout.data.tier
        /\ tx.tier = pout.data.tier
        /\ tx.tier # 0

----------------------------------------------------------------------------
(* Claims about averages no tier contains                                  *)

\* C30: for a balance triple whose floor average is >= 10^16 the lookup
\* falls back to Tier 1, the prover passes Tier 1's bounds [0, 100_000) to
\* the backend, and proof generation fails: no Tier 7 and no Tier 1 proof
\* is returned.
C30_NoProofAboveMaxBalance ==
    (pout.run /\ pout.called /\ BLe(MAX_BALANCE, FloorAvg(preq.balances))) =>
        /\ getTierForBalance(FloorAvg(preq.balances)) = TIERS[1]
        /\ FromDecimal(pout.inputs.tier_lower_bound) = Zero
        /\ FromDecimal(pout.inputs.tier_upper_bound) = <<100000>>
        /\ pout.threw
        /\ pout.data = NoProofData

====
